---- MODULE Spec2Model ----
(***************************************************************************)
(* Convergence Engine (src/index.js): the dual-agent deliberation loop     *)
(* converge(), the turn executor queryOpenAI() with its retry loop, and    *)
(* the pure evaluators hasConverged / getConvergenceScore /                *)
(* calculateTokenCost.                                                     *)
(*                                                                         *)
(* One converge() run is modelled as a state machine whose steps are the   *)
(* run's suspension points: the call of converge() up to its first await,  *)
(* the settlement of an in-flight chat-completion call, and the expiry of  *)
(* a backoff timer.  Everything the code does between two awaits is part   *)
(* of the step that resumes it.                                            *)
(***************************************************************************)
EXTENDS Integers, Sequences, FiniteSets, TLC

VARIABLES
    pc,              \* "idle" | "awaitAPI" | "backoff" | "returned" | "threw"
    initialQuery,    \* converge() argument (a JS value)
    maxIterations,   \* options.maxIterations (a JS number)
    temperature,     \* options.temperature (a JS number)
    onIteration,     \* TRUE iff options.onIteration is supplied
    openaiApiKey,    \* TRUE iff options.openaiApiKey / env key is set
    usageReported,   \* TRUE iff the service's responses carry a usage report
                     \* (one choice per run, made when converge() is called)
    i,               \* loop variable of converge()
    agent,           \* party whose queryOpenAI call is running: "A" | "B"
    attempt,         \* queryOpenAI local
    delay,           \* backoff currently being waited, in ms (0: none)
    conversation,    \* converge local
    totalTokens,     \* converge local
    agentAResponse,  \* converge local
    agentBResponse,  \* converge local
    result,          \* value the promise of converge() resolved with
    error,           \* message the promise of converge() rejected with
    callLog,         \* history: the <<iteration, party>> turns for which a
                     \* chat-completion call was issued
    promptLog,       \* history: the prompt of each turn whose call was issued
    cbCalls,         \* history: completed onIteration invocations
    cbSnapshot,      \* history: <<>> or <<the argument of the latest
                     \* onIteration invocation>>
    tracing,         \* TRUE iff the attempts of this run are logged
    attemptLog,      \* history (when tracing): one entry per settled
                     \* chat-completion call, in order
    cancelRequested, \* environment: the caller wants the run abandoned
    current,         \* which of two converge() runs the variables above hold
    other,           \* the local state of the run that is suspended
    evalReply,       \* evaluator harness: the reply under evaluation
    evalOut,         \* evaluator harness: outputs computed so far
    rawPayload,      \* validation harness: the decoded payload
    rawUsage,        \* validation harness: response.usage
    verdict,         \* validation harness: "" | "accepted" | error message
    tokenPricing,    \* the module-level object TOKEN_PRICING
    costArgs,        \* cost harness: token counts and model identifier
    costOut,         \* cost harness: the costs computed so far
    USE_QUEUE,       \* api/server.js: TRUE iff REDIS_URL is set
    tasks,           \* api/server.js: the status recorded for each task id
                     \* ("absent": the Map has no entry)
    handler,         \* api/server.js: per task, where its handleConvergence
                     \* job and its sendWebhook call stand
    httpLog,         \* history: the answers given to POST /api/v1/converge
    statusReply,     \* the latest answer of GET /api/v1/status/:taskId
    environments,    \* api/tenant-service.js: the tenant_environments rows
    provisioning,    \* per environment, where its provisionTenant call
                     \* stands and how docker-compose up ended
    destroying,      \* per environment, where a destroyTenant call stands
    tenantReply      \* what the latest tenant-service call that ended
                     \* returned or threw

vars == <<pc, initialQuery, maxIterations, temperature, onIteration,
          openaiApiKey, usageReported, i, agent, attempt, delay,
          conversation, totalTokens, agentAResponse, agentBResponse, result,
          error, callLog, promptLog, cbCalls, cbSnapshot, tracing,
          attemptLog, cancelRequested, current, other, evalReply, evalOut,
          rawPayload, rawUsage, verdict,
          tokenPricing, costArgs, costOut, USE_QUEUE, tasks, handler,
          httpLog, statusReply, environments, provisioning, destroying,
          tenantReply>>

sessionVars == <<pc, initialQuery, maxIterations, temperature, onIteration,
                 openaiApiKey, usageReported, i, agent, attempt, delay,
                 conversation, totalTokens, agentAResponse, agentBResponse,
                 result, error, callLog, promptLog, cbCalls, cbSnapshot,
                 tracing, attemptLog, cancelRequested, current, other>>

\* the variables of the harnesses for the pure parts
evalVars == <<evalReply, evalOut, rawPayload, rawUsage, verdict, tokenPricing,
              costArgs, costOut>>

\* the variables of the API layer (src/api)
serverVars == <<USE_QUEUE, tasks, handler, httpLog, statusReply>>
tenantVars == <<environments, provisioning, destroying, tenantReply>>
apiVars == <<serverVars, tenantVars>>

\* what no step of converge() or queryOpenAI writes
envVars == <<tracing, cancelRequested, current, other, apiVars>>

(***************************************************************************)
(* Bounds of the model.                                                    *)
(***************************************************************************)
MaxIterationsTried == 2   \* largest valid maxIterations passed to converge()
MaxGaps == 1              \* length of the missingContext list of a turn that
                          \* reports gaps (a turn reports none, or MaxGaps)
MaxEvalGaps == 5          \* longest missingContext list given to evaluators
MaxEnvs == 1              \* environments the tenant service may create
MaxTasks == 1             \* task ids the API server may hand out
MaxTokens == 1            \* token counts given to calculateTokenCost, besides
                          \* the 500 and 1000 of the repository's test

Min(a, b) == IF a < b THEN a ELSE b
Max(a, b) == IF a > b THEN a ELSE b

(***************************************************************************)
(* JS values.  A number is int + frac/10 with frac in 0..9, so that        *)
(* Number.isInteger and the range tests are computed, not assumed.         *)
(***************************************************************************)
Num(n, f) == [int |-> n, frac |-> f]
NumberIsInteger(x) == x.frac = 0
NumLess(x, y) == x.int < y.int \/ (x.int = y.int /\ x.frac < y.frac)

JSString(cs) == [type |-> "string", chars |-> cs]
JSNull == [type |-> "null", chars |-> <<>>]
JSNumber5 == [type |-> "number", chars |-> <<>>]

\* !v for the values above: "" and null are falsy, a non-zero number is not
Falsy(v) == v.type = "null" \/ (v.type = "string" /\ Len(v.chars) = 0)

RECURSIVE TrimStart(_)
TrimStart(cs) ==
    IF cs # <<>> /\ Head(cs) = " " THEN TrimStart(Tail(cs)) ELSE cs

RECURSIVE TrimEnd(_)
TrimEnd(cs) ==
    IF cs # <<>> /\ cs[Len(cs)] = " "
    THEN TrimEnd(SubSeq(cs, 1, Len(cs) - 1))
    ELSE cs

Trim(cs) == TrimEnd(TrimStart(cs))


(***************************************************************************)
(* Replies.  missingContext is a list of strings; the text of a reply is   *)
(* kept abstract ("text"), and id stands for the identity of the object    *)
(* queryOpenAI builds for the turn (its position in the conversation), so  *)
(* that "the same reply" means the same object, as in the code.            *)
(***************************************************************************)
RECURSIVE GapList(_)
GapList(n) == IF n = 0 THEN <<>> ELSE Append(GapList(n - 1), "gap")

NoTokens == [prompt |-> 0, completion |-> 0, total |-> 0]

\* the value of agentAResponse / agentBResponse before its first assignment
NullReply == [id |-> 0, response |-> "", continue |-> TRUE,
              missingContext |-> <<>>, tokens |-> NoTokens]

(***************************************************************************)
(* hasConverged, src/index.js:136-138                                      *)
(***************************************************************************)
hasConverged_NoGapCheck(agentResponse) == ~agentResponse.continue

hasConverged(agentResponse) ==
    ~agentResponse.continue /\ Len(agentResponse.missingContext) = 0

(***************************************************************************)
(* getConvergenceScore, src/index.js:146-162                               *)
(***************************************************************************)
getConvergenceScore_NoPenaltyCap(agentResponse) ==
    LET continueScore == IF ~agentResponse.continue THEN 60 ELSE 0
        n == Len(agentResponse.missingContext)
    IN  IF n = 0 THEN continueScore + 40 ELSE continueScore + (40 - n * 10)

getConvergenceScore_FlatGapCredit(agentResponse) ==
    LET continueScore == IF ~agentResponse.continue THEN 60 ELSE 0
    IN  continueScore + 40

\* a penalty that is credited instead of deducted
getConvergenceScore_GapsCredited(agentResponse) ==
    LET continueScore == IF ~agentResponse.continue THEN 60 ELSE 0
        n == Len(agentResponse.missingContext)
    IN  IF n = 0 THEN continueScore + 40
        ELSE continueScore + Min(n * 10, 40)

\* a penalty capped at 30
getConvergenceScore_PenaltyCap30(agentResponse) ==
    LET continueScore == IF ~agentResponse.continue THEN 60 ELSE 0
        n == Len(agentResponse.missingContext)
    IN  IF n = 0 THEN continueScore + 40
        ELSE Max(0, continueScore + (40 - Min(n * 10, 30)))

getConvergenceScore(agentResponse) ==
    LET continueScore == IF ~agentResponse.continue THEN 60 ELSE 0
        n == Len(agentResponse.missingContext)
        score == IF n = 0
                 THEN continueScore + 40
                 ELSE LET missingPenalty == Min(n * 10, 40)
                      IN  continueScore + (40 - missingPenalty)
    IN  Max(0, score)

(***************************************************************************)
(* TOKEN_PRICING and calculateTokenCost, src/index.js:168-198.  Rates are  *)
(* kept as integers in units of 1e-4 (0.0025 -> 25), so a cost is an exact *)
(* integer in units of 1e-10 dollars; toFixed(6) rounds it to micro-       *)
(* dollars (1e-6 = 10000 units), half up.                                  *)
(***************************************************************************)
DefaultModel == "gpt-4o-2024-08-06"

TOKEN_PRICING ==
    [m \in {"gpt-4o-2024-08-06", "gpt-4o", "gpt-4-turbo", "gpt-4"} |->
        CASE m = "gpt-4o-2024-08-06" -> [prompt |-> 25, completion |-> 100]
          [] m = "gpt-4o"            -> [prompt |-> 25, completion |-> 100]
          [] m = "gpt-4-turbo"       -> [prompt |-> 100, completion |-> 300]
          [] m = "gpt-4"             -> [prompt |-> 300, completion |-> 600]]

\* the number NaN; every other cost is >= 0
NaN == -1

\* the property names TOKEN_PRICING inherits from Object.prototype: for
\* these TOKEN_PRICING[model] is a function or an object, which is truthy
\* and has neither a prompt nor a completion property
ObjectPrototypeNames ==
    {"constructor", "__proto__", "hasOwnProperty", "isPrototypeOf",
     "propertyIsEnumerable", "toLocaleString", "toString", "valueOf",
     "__defineGetter__", "__defineSetter__", "__lookupGetter__",
     "__lookupSetter__"}

\* a cost that adds a fixed charge of one rate unit to every call
calculateTokenCost_FixedCharge(promptTokens, completionTokens, model) ==
    LET pricing == IF model \in DOMAIN tokenPricing
                   THEN tokenPricing[model]
                   ELSE tokenPricing[DefaultModel]
    IN  IF model \in ObjectPrototypeNames \ DOMAIN tokenPricing
        THEN NaN
        ELSE promptTokens * pricing.prompt
               + completionTokens * pricing.completion + 1

\* src/index.js:195-198, in units of 1e-10 dollars.  TOKEN_PRICING[model]
\* is the table's own entry, or what the table inherits under that name
\* (then pricing.prompt is undefined and the product is NaN), or undefined
\* (then the default model's entry is used)
calculateTokenCost(promptTokens, completionTokens, model) ==
    LET pricing == IF model \in DOMAIN tokenPricing
                   THEN tokenPricing[model]
                   ELSE tokenPricing[DefaultModel]
    IN  IF model \in ObjectPrototypeNames \ DOMAIN tokenPricing
        THEN NaN
        ELSE promptTokens * pricing.prompt
               + completionTokens * pricing.completion

\* the cost kept as computed, not rounded
ToFixed6_FullPrecision(cost) == cost

\* parseFloat(estCost.toFixed(6)), in micro-dollars
ToFixed6(cost) == IF cost = NaN THEN NaN ELSE (cost + 5000) \div 10000


(***************************************************************************)
(* The chat-completion service as queryOpenAI sees it.  A call either      *)
(* resolves with a message (whose content may be empty) and an optional    *)
(* usage report, or rejects with an error whose status is an HTTP status   *)
(* or 0 when the error carries none (a transport error: error.status is    *)
(* undefined).  A payload is the decoded JSON text of the message: the     *)
(* response field is kept as (its typeof, its text), the continue and      *)
(* confidence fields as their JSON token ("undefined" when the field is    *)
(* absent), missingContext as (is it an array, its items, the typeof of    *)
(* each item).                                                             *)
(***************************************************************************)
maxRetries == 3
retryDelay == 1000

RECURSIVE AllStrings(_)
AllStrings(items) ==
    IF items = <<>> THEN <<>> ELSE <<"string">> \o AllStrings(Tail(items))

DecodedPayload(rType, r, c, mc, conf) ==
    [responseType |-> rType, response |-> r, continue |-> c,
     missingContext |-> mc, confidence |-> conf]

\* a payload whose response is a string, whose missingContext items are
\* strings and whose confidence is present
Payload(r, c, isArr, items) ==
    DecodedPayload("string", r, c,
                   [isArray |-> isArr, items |-> items,
                    itemTypes |-> AllStrings(items)],
                   "90")

ValidPayloads ==
    { Payload("text", c, TRUE, GapList(n)) : c \in {"true", "false"},
                                             n \in {0, MaxGaps} }

InvalidPayloads ==
    { Payload("", "false", TRUE, <<>>),          \* empty response text
      Payload("text", "\"no\"", TRUE, <<>>),     \* continue is not a boolean
      Payload("text", "false", FALSE, <<>>) }    \* missingContext is no array

Payloads == ValidPayloads \cup InvalidPayloads

\* response.usage: absent, or the counts the service reports for the turn
\* (the two parties' prompts differ, and so do their counts)
\* fields is the set of counts the report carries
UsageFields == {"prompt_tokens", "completion_tokens", "total_tokens"}

NoUsage ==
    [present |-> FALSE, fields |-> {}, prompt_tokens |-> 0,
     completion_tokens |-> 0, total_tokens |-> 0]

UsageReport(ag, reported) ==
    IF ~reported
    THEN NoUsage
    ELSE IF ag = "A"
    THEN [present |-> TRUE, fields |-> UsageFields, prompt_tokens |-> 3,
          completion_tokens |-> 2, total_tokens |-> 5]
    ELSE [present |-> TRUE, fields |-> UsageFields, prompt_tokens |-> 4,
          completion_tokens |-> 1, total_tokens |-> 5]

\* a count read without a default: an absent count is not a number
UsageCount_NoDefault(usage, field) ==
    IF usage.present /\ field \in usage.fields THEN usage[field] ELSE NaN

\* response.usage?.<field> || 0, src/index.js:108-110
UsageCount(usage, field) ==
    IF usage.present /\ field \in usage.fields /\ usage[field] # 0
    THEN usage[field]
    ELSE 0

ErrorStatuses == {429, 500, 503, 400, 401, 0}

\* the errors the catch block of queryOpenAI can receive: a rejected call
\* (status 0: the error carries no status), and the Errors thrown at
\* src/index.js:94, 97 (JSON.parse) and 101, none of which has a status
ApiError(status) == [message |-> "API error", status |-> status]
EmptyResponseError == [message |-> "Empty response from OpenAI", status |-> 0]
SyntaxError == [message |-> "Unexpected token", status |-> 0]
InvalidFormatError ==
    [message |-> "Invalid response format from OpenAI", status |-> 0]
NoError == [message |-> "", status |-> 0]

\* typeof JSON.parse(token) === 'boolean'
IsBooleanToken(tok) == tok \in {"true", "false"}

\* !parsedResponse.response: an absent field and "" are falsy, a non-empty
\* string and a non-zero number are not
ResponseFalsy(parsedResponse) ==
    \/ parsedResponse.responseType = "undefined"
    \/ (parsedResponse.responseType = "string"
        /\ parsedResponse.response = "")

\* the validation of src/index.js:100
ValidFormat(parsedResponse) ==
    ~( ResponseFalsy(parsedResponse)
       \/ ~IsBooleanToken(parsedResponse.continue)
       \/ ~parsedResponse.missingContext.isArray )

\* the object returned at src/index.js:105-112
MakeReply(parsedResponse, usage, ident) ==
    [id |-> ident,
     response |-> parsedResponse.response,
     continue |-> (parsedResponse.continue = "true"),
     missingContext |-> parsedResponse.missingContext.items,
     tokens |-> [prompt |-> UsageCount(usage, "prompt_tokens"),
                 completion |-> UsageCount(usage, "completion_tokens"),
                 total |-> UsageCount(usage, "total_tokens")]]

\* an error without status counted as retryable too
isRetryable_OrNoStatus(status) ==
    status = 429 \/ status = 500 \/ status = 503 \/ status = 0

\* every HTTP failure counted as retryable
isRetryable_AnyStatus(status) == status # 0

\* src/index.js:115
isRetryable(status) == status = 429 \/ status = 500 \/ status = 503

\* src/index.js:118 (retryDelay * 2^(attempt-1))
RECURSIVE Pow2(_)
Pow2(n) == IF n = 0 THEN 1 ELSE 2 * Pow2(n - 1)

BackoffDelay_Constant(att) == retryDelay

BackoffDelay(att) == retryDelay * Pow2(att - 1)

(***************************************************************************)
(* converge(): argument validation, src/index.js:215-235.  The value is    *)
(* the message of the Error thrown, or "" when the arguments pass.         *)
(***************************************************************************)
QueryInputs ==
    { JSString(<<"q">>), JSString(<<>>), JSString(<<" ", " ">>),
      JSNull, JSNumber5 }

MaxIterationsInputs ==
    { Num(n, 0) : n \in -1..MaxIterationsTried } \cup { Num(1, 5) }

TemperatureInputs == { Num(-1, 0), Num(0, 0), Num(2, 0), Num(2, 1) }

ValidationError_NoIntegerCheck(query, maxIter, temp) ==
    IF Falsy(query) \/ query.type # "string" \/ Len(Trim(query.chars)) = 0
    THEN "Invalid initialQuery: must be a non-empty string"
    ELSE IF NumLess(maxIter, Num(1, 0))
    THEN "maxIterations must be a positive integer"
    ELSE IF NumLess(temp, Num(0, 0)) \/ NumLess(Num(2, 0), temp)
    THEN "temperature must be between 0 and 2"
    ELSE ""

ValidationError(query, maxIter, temp) ==
    IF Falsy(query) \/ query.type # "string" \/ Len(Trim(query.chars)) = 0
    THEN "Invalid initialQuery: must be a non-empty string"
    ELSE IF NumLess(maxIter, Num(1, 0)) \/ ~NumberIsInteger(maxIter)
    THEN "maxIterations must be a positive integer"
    ELSE IF NumLess(temp, Num(0, 0)) \/ NumLess(Num(2, 0), temp)
    THEN "temperature must be between 0 and 2"
    ELSE ""


(***************************************************************************)
(* converge(): the decisions and records of the loop body.                 *)
(***************************************************************************)
\* completion tokens left out of the running totals
AddTokens_DropsCompletion(tot, t) ==
    [prompt |-> tot.prompt + t.prompt,
     completion |-> tot.completion,
     total |-> tot.total + t.total]

AddTokens(tot, t) ==
    [prompt |-> tot.prompt + t.prompt,
     completion |-> tot.completion + t.completion,
     total |-> tot.total + t.total]

\* an entry that numbers the iterations from 0, as the loop variable does
Turn_ZeroBased(iter, ag, reply) ==
    [iteration |-> iter - 1, agent |-> ag,
     role |-> IF ag = "A" THEN "agentA" ELSE "agentB", response |-> reply]

\* the entry pushed at src/index.js:284-289 / 334-339
Turn(iter, ag, reply) ==
    [iteration |-> iter, agent |-> ag,
     role |-> IF ag = "A" THEN "agentA" ELSE "agentB", response |-> reply]

StopAfterA_Never(reply) == FALSE

\* Party A's reply ends the run as soon as it declines to continue
StopAfterA_OnContinueFalse(reply) == ~reply.continue

\* src/index.js:292
StopAfterA(reply) == hasConverged(reply)

StopAfterB_Never(reply) == FALSE

\* src/index.js:342
StopAfterB(reply) == hasConverged(reply)

\* a loop that runs one iteration beyond the bound
LoopContinues_OneMore(idx, maxIter) == idx <= maxIter.int

\* src/index.js:253, the loop test
LoopContinues(idx, maxIter) == idx < maxIter.int

\* the argument of onIteration, src/index.js:360-365
IterationState(idx, a, b) ==
    [iteration |-> idx + 1, agentA |-> a, agentB |-> b, converged |-> FALSE]

\* iterations counting only the iterations in which both parties replied
ConvergedResult_CompletedOnly(idx, reply, conv, tokens) ==
    [converged |-> TRUE,
     iterations |-> Len(conv) \div 2,
     finalResponse |-> reply,
     conversation |-> conv,
     convergenceScore |-> 100,
     tokens |-> tokens,
     estimatedCost |->
        ToFixed6(calculateTokenCost(tokens.prompt, tokens.completion,
                                    DefaultModel))]

\* the object returned at src/index.js:295-303 / 345-353
ConvergedResult(idx, reply, conv, tokens) ==
    [converged |-> TRUE,
     iterations |-> idx + 1,
     finalResponse |-> reply,
     conversation |-> conv,
     convergenceScore |-> 100,
     tokens |-> tokens,
     estimatedCost |->
        ToFixed6(calculateTokenCost(tokens.prompt, tokens.completion,
                                    DefaultModel))]

\* src/index.js:372-375 and 384
FinalScore(a, b) == Max(getConvergenceScore(a), getConvergenceScore(b))

\* the final response is always Party B's
FinalResponse_AlwaysB(a, b) == b

FinalResponse_PreferB(a, b) ==
    IF FinalScore(a, b) = getConvergenceScore(b) THEN b ELSE a

FinalResponse(a, b) ==
    IF FinalScore(a, b) = getConvergenceScore(a) THEN a ELSE b

\* the turn of conv with the highest score, the latest one among equals
RECURSIVE BestTurn(_)
BestTurn(conv) ==
    IF Len(conv) = 1 THEN conv[1].response
    ELSE LET last == conv[Len(conv)].response
             rest == BestTurn(SubSeq(conv, 1, Len(conv) - 1))
         IN  IF getConvergenceScore(last) >= getConvergenceScore(rest)
             THEN last ELSE rest

ExhaustedResult_BestOfConversation(maxIter, a, b, conv, tokens) ==
    [converged |-> FALSE,
     iterations |-> maxIter.int,
     finalResponse |-> BestTurn(conv),
     conversation |-> conv,
     convergenceScore |-> getConvergenceScore(BestTurn(conv)),
     tokens |-> tokens,
     estimatedCost |->
        ToFixed6(calculateTokenCost(tokens.prompt, tokens.completion,
                                    DefaultModel))]

\* the object returned at src/index.js:381-389
ExhaustedResult(maxIter, a, b, conv, tokens) ==
    [converged |-> FALSE,
     iterations |-> maxIter.int,
     finalResponse |-> FinalResponse(a, b),
     conversation |-> conv,
     convergenceScore |-> FinalScore(a, b),
     tokens |-> tokens,
     estimatedCost |->
        ToFixed6(calculateTokenCost(tokens.prompt, tokens.completion,
                                    DefaultModel))]

(***************************************************************************)
(* The prompts, src/index.js:260-262 and 312.  A prompt is the query (when *)
(* it is the query itself) or the segments of the template literal in      *)
(* order; source is the id of the reply the template was filled from (0:   *)
(* none), which tells apart replies of equal text.                         *)
(***************************************************************************)
\* Array.prototype.join: the items with the separator between them
RECURSIVE Join(_, _)
Join(items, sep) ==
    IF Len(items) <= 1 THEN items
    ELSE <<Head(items), sep>> \o Join(Tail(items), sep)

\* missingContext.join(', ') || 'None': an empty result (no item, or one
\* empty item) is falsy
JoinOrNone(items) ==
    IF items = <<>> \/ items = <<"">> THEN <<"None">> ELSE Join(items, ", ")

\* Party A refining its own previous reply instead of Party B's critique
agentAPrompt_FromOwnReply(idx, query, b) ==
    IF idx = 0
    THEN [query |-> query, parts |-> <<>>, source |-> 0]
    ELSE [query |-> JSNull,
          parts |-> <<"Build upon and refine the previous discussion:\n\nPrevious response: ",
                      agentAResponse.response,
                      "\n\nMissing context identified: ">>
                    \o JoinOrNone(agentAResponse.missingContext)
                    \o <<"\n\nProvide deeper analysis.">>,
          source |-> agentAResponse.id]

\* src/index.js:260-262
agentAPrompt(idx, query, b) ==
    IF idx = 0
    THEN [query |-> query, parts |-> <<>>, source |-> 0]
    ELSE [query |-> JSNull,
          parts |-> <<"Build upon and refine the previous discussion:\n\nPrevious response: ",
                      b.response,
                      "\n\nMissing context identified: ">>
                    \o JoinOrNone(b.missingContext)
                    \o <<"\n\nProvide deeper analysis.">>,
          source |-> b.id]

\* src/index.js:312
agentBPrompt(a) ==
    [query |-> JSNull,
     parts |-> <<"Review and critique this response. Find gaps, challenge assumptions, and suggest what's missing:\n\n",
                 a.response>>,
     source |-> a.id]

(***************************************************************************)
(* Fragments of steps.                                                     *)
(***************************************************************************)
\* converge() rejects with msg
Throw(msg) ==
    /\ pc' = "threw"
    /\ error' = msg
    /\ result' = <<>>

\* converge() resolves with res
Return(res) ==
    /\ pc' = "returned"
    /\ result' = <<res>>
    /\ error' = ""

\* both parties of the iteration called at once
IssueFirstCall_BothParties(ag, iter, prompt) ==
    /\ pc' = "awaitAPI"
    /\ agent' = ag
    /\ attempt' = 1
    /\ delay' = 0
    /\ callLog' = callLog \cup {<<iter, "A">>, <<iter, "B">>}
    /\ promptLog' = promptLog \cup
          {[iteration |-> iter, agent |-> ag, prompt |-> prompt]}
    /\ UNCHANGED <<result, error>>

\* queryOpenAI entered for party ag with the key set: src/index.js:44-70,
\* up to the first chat-completion call, in iteration iter; the prompt is
\* the user message of every attempt of the turn (src/index.js:76)
IssueFirstCall(ag, iter, prompt) ==
    /\ pc' = "awaitAPI"
    /\ agent' = ag
    /\ attempt' = 1
    /\ delay' = 0
    /\ callLog' = callLog \cup {<<iter, ag>>}
    /\ promptLog' = promptLog \cup
          {[iteration |-> iter, agent |-> ag, prompt |-> prompt]}
    /\ UNCHANGED <<result, error>>

\* history: the call of the current attempt settled with err (NoError: its
\* reply was accepted) and queryOpenAI then waits for wait ms (0: no wait)
Logged(err, wait) ==
    attemptLog' =
        IF tracing
        THEN Append(attemptLog,
                    [iteration |-> i + 1, agent |-> agent,
                     attempt |-> attempt, error |-> err, wait |-> wait])
        ELSE attemptLog

\* the local state of a converge() run that was not called yet
IdleRun ==
    [pc |-> "idle", initialQuery |-> JSNull, maxIterations |-> Num(0, 0),
     temperature |-> Num(0, 0), onIteration |-> FALSE,
     openaiApiKey |-> FALSE, usageReported |-> FALSE, i |-> 0, agent |-> "A",
     attempt |-> 0, delay |-> 0, conversation |-> <<>>,
     totalTokens |-> NoTokens, agentAResponse |-> NullReply,
     agentBResponse |-> NullReply, result |-> <<>>, error |-> "",
     callLog |-> {}, promptLog |-> {}, cbCalls |-> 0, cbSnapshot |-> <<>>,
     attemptLog |-> <<>>]

\* the API server before its first request: no task, no queue configured
TaskIds == 1..MaxTasks

IdleHandler ==
    [pc |-> "none", outcome |-> "none", attemptsMade |-> 0, attempt |-> 0,
     delay |-> 0, waits |-> <<>>, delivered |-> "pending"]

NoStatusReply == [taskId |-> 0, code |-> 0, status |-> ""]

ServerIdle ==
    /\ tasks = [t \in TaskIds |-> "absent"]
    /\ handler = [t \in TaskIds |-> IdleHandler]
    /\ httpLog = {}
    /\ statusReply = NoStatusReply

(***************************************************************************)
(* The tenant service: src/api/tenant-service.js.  environments is the     *)
(* tenant_environments table; provisionTenant, getTenantStatus and         *)
(* destroyTenant are async functions whose awaits let calls interleave.    *)
(* docker, the file system and the database are the environment: each      *)
(* command either succeeds or throws.                                      *)
(***************************************************************************)
EnvIds == 1..MaxEnvs

\* an id no INSERT returned
UnknownEnvId == 0

NoRow == [status |-> "absent", storage_path |-> FALSE, container |-> "none"]

NoTenantReply == [op |-> "", id |-> 0, outcome |-> ""]

TenantIdle ==
    /\ environments = [e \in EnvIds |-> NoRow]
    /\ provisioning = [e \in EnvIds |-> [pc |-> "none", up |-> "none"]]
    /\ destroying = [e \in EnvIds |-> "none"]
    /\ tenantReply = NoTenantReply

\* converge() was not called yet
SessionIdle ==
    /\ current = 1
    /\ other = IdleRun
    /\ pc = "idle"
    /\ initialQuery = JSNull
    /\ maxIterations = Num(0, 0)
    /\ temperature = Num(0, 0)
    /\ onIteration = FALSE
    /\ openaiApiKey = FALSE
    /\ usageReported = FALSE
    /\ i = 0
    /\ agent = "A"
    /\ attempt = 0
    /\ delay = 0
    /\ conversation = <<>>
    /\ totalTokens = NoTokens
    /\ agentAResponse = NullReply
    /\ agentBResponse = NullReply
    /\ result = <<>>
    /\ error = ""
    /\ callLog = {}
    /\ promptLog = {}
    /\ cbCalls = 0
    /\ cbSnapshot = <<>>
    /\ attemptLog = <<>>
    /\ cancelRequested = FALSE

SessionInit ==
    /\ USE_QUEUE = FALSE
    /\ ServerIdle
    /\ TenantIdle
    /\ SessionIdle

\* the cost harness before use
CostIdle ==
    /\ costArgs = [p1 |-> 0, c1 |-> 0, p2 |-> 0, c2 |-> 0,
                   model |-> DefaultModel]
    /\ costOut = [first |-> <<>>, second |-> <<>>, sum |-> <<>>,
                  double |-> <<>>, default |-> <<>>]

\* no harness is in use
HarnessIdle ==
    /\ evalReply = NullReply
    /\ evalOut = [converged |-> <<>>, score |-> <<>>, fewer |-> <<>>]
    /\ rawPayload = Payload("", "false", TRUE, <<>>)
    /\ rawUsage = NoUsage
    /\ verdict = ""
    /\ tokenPricing = TOKEN_PRICING
    /\ CostIdle

Init ==
    /\ SessionInit
    /\ tracing = FALSE
    /\ HarnessIdle

(***************************************************************************)
(* converge(initialQuery, options) is called: src/index.js:214-270, up to  *)
(* the first await.                                                        *)
(***************************************************************************)
ConvergeWith(maxIterationsOffered) ==
    /\ pc = "idle"
    /\ \E q \in QueryInputs, m \in maxIterationsOffered,
          t \in TemperatureInputs, cb \in BOOLEAN, key \in BOOLEAN,
          usage \in BOOLEAN :
        /\ initialQuery' = q
        /\ usageReported' = usage
        /\ maxIterations' = m
        /\ temperature' = t
        /\ onIteration' = cb
        /\ openaiApiKey' = key
        /\ UNCHANGED <<i, conversation, totalTokens, agentAResponse,
                       agentBResponse, cbCalls, cbSnapshot, attemptLog>>
        /\ IF ValidationError(q, m, t) # ""
           THEN /\ Throw(ValidationError(q, m, t))
                /\ UNCHANGED <<agent, attempt, delay, callLog, promptLog>>
           ELSE IF ~key
           THEN /\ Throw("OPENAI_API_KEY not set")
                /\ UNCHANGED <<agent, attempt, delay, callLog, promptLog>>
           ELSE IssueFirstCall("A", i + 1, agentAPrompt(i, q, agentBResponse))
    /\ UNCHANGED <<envVars, evalVars>>

Converge == ConvergeWith(MaxIterationsInputs)


(***************************************************************************)
(* queryOpenAI: the catch block, src/index.js:113-124, for an error with   *)
(* the given status thrown inside the try (a rejected call, or one of the  *)
(* two Errors thrown at lines 94 and 101, which carry no status).  The     *)
(* Error thrown at line 122 is not caught by converge(): the run rejects.  *)
(***************************************************************************)
\* a turn failure swallowed: the run resolves with what it has so far
TurnFails_ReturnsPartial ==
    /\ Return([converged |-> FALSE, iterations |-> i,
                finalResponse |-> agentAResponse,
                conversation |-> conversation,
                convergenceScore |-> 0, tokens |-> totalTokens,
                estimatedCost |-> 0])
    /\ UNCHANGED <<delay, callLog, promptLog>>

TurnFails ==
    /\ Throw("OpenAI API failed")
    /\ UNCHANGED <<delay, callLog, promptLog>>

\* a wait started after the last attempt as well
Catch_WaitsAfterLast(err) ==
    /\ IF isRetryable(err.status) /\ attempt <= maxRetries
       THEN /\ pc' = "backoff"
            /\ delay' = BackoffDelay(attempt)
            /\ Logged(err, BackoffDelay(attempt))
            /\ UNCHANGED <<result, error, callLog, promptLog>>
       ELSE /\ TurnFails
            /\ Logged(err, 0)
    /\ UNCHANGED <<initialQuery, maxIterations, temperature, onIteration,
                   openaiApiKey, usageReported, i, agent, attempt,
                   conversation, totalTokens, agentAResponse, agentBResponse,
                   cbCalls, cbSnapshot>>

Catch(err) ==
    /\ IF isRetryable(err.status) /\ attempt < maxRetries
       THEN /\ pc' = "backoff"
            /\ delay' = BackoffDelay(attempt)
            /\ Logged(err, BackoffDelay(attempt))
            /\ UNCHANGED <<result, error, callLog, promptLog>>
       ELSE /\ TurnFails
            /\ Logged(err, 0)
    /\ UNCHANGED <<initialQuery, maxIterations, temperature, onIteration,
                   openaiApiKey, usageReported, i, agent, attempt,
                   conversation, totalTokens, agentAResponse, agentBResponse,
                   cbCalls, cbSnapshot>>

\* the chat-completion call rejects: src/index.js:70, 113
CallRejects ==
    /\ pc = "awaitAPI"
    /\ \E status \in ErrorStatuses : Catch(ApiError(status))
    /\ UNCHANGED <<envVars, evalVars>>

\* the call resolves with no message content: src/index.js:93-95
EmptyContent ==
    /\ pc = "awaitAPI"
    /\ Catch(EmptyResponseError)
    /\ UNCHANGED <<envVars, evalVars>>

\* the call resolves with content that is not JSON: src/index.js:97
ParseFails ==
    /\ pc = "awaitAPI"
    /\ Catch(SyntaxError)
    /\ UNCHANGED <<envVars, evalVars>>

\* a payload that fails validation treated as a retryable failure
InvalidFormat_Retried ==
    /\ pc = "awaitAPI"
    /\ \E p \in Payloads :
          ~ValidFormat(p)
          /\ Catch([message |-> InvalidFormatError.message, status |-> 503])
    /\ UNCHANGED <<envVars, evalVars>>

\* the call resolves with a payload that fails validation: src/index.js:97-102
InvalidFormat ==
    /\ pc = "awaitAPI"
    /\ \E p \in Payloads : ~ValidFormat(p) /\ Catch(InvalidFormatError)
    /\ UNCHANGED <<envVars, evalVars>>

\* a retry that does not count as an attempt
BackoffElapses_AttemptNotCounted ==
    /\ pc = "backoff"
    /\ pc' = "awaitAPI"
    /\ attempt' = attempt
    /\ delay' = 0
    /\ UNCHANGED <<result, error, callLog, promptLog>>
    /\ UNCHANGED <<initialQuery, maxIterations, temperature, onIteration,
                   openaiApiKey, usageReported, i, agent, conversation,
                   totalTokens, agentAResponse, agentBResponse, cbCalls,
                   cbSnapshot, attemptLog>>
    /\ UNCHANGED <<envVars, evalVars>>

\* the backoff timer fires: src/index.js:120, then 67-70
BackoffElapses ==
    /\ pc = "backoff"
    /\ IF attempt < maxRetries
       THEN /\ pc' = "awaitAPI"
            /\ attempt' = attempt + 1
            /\ delay' = 0
            /\ UNCHANGED <<result, error, callLog, promptLog>>
       ELSE /\ Throw("lastError")
            /\ UNCHANGED <<attempt, delay, callLog, promptLog>>
    /\ UNCHANGED <<initialQuery, maxIterations, temperature, onIteration,
                   openaiApiKey, usageReported, i, agent, conversation,
                   totalTokens, agentAResponse, agentBResponse, cbCalls,
                   cbSnapshot, attemptLog>>
    /\ UNCHANGED <<envVars, evalVars>>

(***************************************************************************)
(* Party A's call resolves with a valid payload: src/index.js:97-112, then *)
(* converge() resumes at line 264 and runs to its next await or return.    *)
(***************************************************************************)
PartyAReplies ==
    /\ pc = "awaitAPI"
    /\ agent = "A"
    /\ \E p \in Payloads :
        /\ ValidFormat(p)
        /\ LET reply == MakeReply(p, UsageReport("A", usageReported),
                                  Len(conversation) + 1)
               tokens == AddTokens(totalTokens, reply.tokens)
               conv == Append(conversation, Turn(i + 1, "A", reply))
           IN  /\ agentAResponse' = reply
               /\ totalTokens' = tokens
               /\ conversation' = conv
               /\ IF StopAfterA(reply)
                  THEN /\ Return(ConvergedResult(i, reply, conv, tokens))
                       /\ UNCHANGED <<agent, attempt, delay, callLog, promptLog>>
                  ELSE IssueFirstCall("B", i + 1, agentBPrompt(reply))
    /\ Logged(NoError, 0)
    /\ UNCHANGED <<initialQuery, maxIterations, temperature, onIteration,
                   openaiApiKey, usageReported, i, agentBResponse, cbCalls,
                   cbSnapshot>>
    /\ UNCHANGED <<envVars, evalVars>>

(***************************************************************************)
(* Party B's call resolves with a valid payload: src/index.js:97-112, then *)
(* converge() resumes at line 314 and runs through the callback and the    *)
(* loop test to its next await, its return or the callback's exception.    *)
(***************************************************************************)
PartyBReplies ==
    /\ pc = "awaitAPI"
    /\ agent = "B"
    /\ \E p \in Payloads,
          cbThrows \in (IF onIteration THEN BOOLEAN ELSE {FALSE}) :
        /\ ValidFormat(p)
        /\ LET reply == MakeReply(p, UsageReport("B", usageReported),
                                  Len(conversation) + 1)
               tokens == AddTokens(totalTokens, reply.tokens)
               conv == Append(conversation, Turn(i + 1, "B", reply))
           IN  /\ agentBResponse' = reply
               /\ totalTokens' = tokens
               /\ conversation' = conv
               /\ IF StopAfterB(reply)
                  THEN /\ ~cbThrows
                       /\ Return(ConvergedResult(i, reply, conv, tokens))
                       /\ UNCHANGED <<i, agent, attempt, delay, callLog, promptLog,
                                      cbCalls, cbSnapshot>>
                  ELSE IF cbThrows
                  THEN /\ Throw("onIteration threw")
                       /\ cbSnapshot' = <<IterationState(i, agentAResponse,
                                                         reply)>>
                       /\ UNCHANGED <<i, agent, attempt, delay, callLog, promptLog,
                                      cbCalls>>
                  ELSE /\ cbCalls' = cbCalls + (IF onIteration THEN 1 ELSE 0)
                       /\ cbSnapshot' =
                             IF onIteration
                             THEN <<IterationState(i, agentAResponse, reply)>>
                             ELSE cbSnapshot
                       /\ i' = i + 1
                       /\ IF LoopContinues(i + 1, maxIterations)
                          THEN IssueFirstCall("A", i + 2,
                                              agentAPrompt(i + 1,
                                                           initialQuery,
                                                           reply))
                          ELSE /\ Return(ExhaustedResult(maxIterations,
                                            agentAResponse, reply, conv,
                                            tokens))
                               /\ UNCHANGED <<agent, attempt, delay,
                                              callLog, promptLog>>
    /\ Logged(NoError, 0)
    /\ UNCHANGED <<initialQuery, maxIterations, temperature, onIteration,
                   openaiApiKey, usageReported, agentAResponse>>
    /\ UNCHANGED <<envVars, evalVars>>

Next ==
    \/ Converge
    \/ CallRejects
    \/ EmptyContent
    \/ ParseFails
    \/ InvalidFormat
    \/ BackoffElapses
    \/ PartyAReplies
    \/ PartyBReplies

Spec == Init /\ [][Next]_vars


(***************************************************************************)
(* Sessions whose environment is live: the chat-completion call that is    *)
(* outstanding eventually resolves or rejects (src/index.js:70), and the   *)
(* timer of a backoff wait eventually fires (src/index.js:120).            *)
(***************************************************************************)
\* the outstanding call settles, one way or another
CallSettles ==
    \/ CallRejects
    \/ EmptyContent
    \/ ParseFails
    \/ InvalidFormat
    \/ PartyAReplies
    \/ PartyBReplies

LiveSpec ==
    Init /\ [][Next]_vars /\ WF_vars(CallSettles) /\ WF_vars(BackoffElapses)


(***************************************************************************)
(* Two converge() runs on one event loop (README "Parallel Convergence",   *)
(* Promise.all over converge calls).  Every variable a run uses is a       *)
(* parameter or a local of its own invocation (src/index.js:214-245 and    *)
(* 44-67); TOKEN_PRICING is the only module-level object a run touches.    *)
(* The session variables hold the locals of the run whose continuation is  *)
(* executing, other those of the run that is suspended; between two        *)
(* continuations the event loop may resume either run.  Both runs are      *)
(* one-iteration runs with a valid configuration.                          *)
(***************************************************************************)
\* the local state of the run that is executing
Self ==
    [pc |-> pc, initialQuery |-> initialQuery,
     maxIterations |-> maxIterations, temperature |-> temperature,
     onIteration |-> onIteration, openaiApiKey |-> openaiApiKey,
     usageReported |-> usageReported, i |-> i, agent |-> agent,
     attempt |-> attempt, delay |-> delay, conversation |-> conversation,
     totalTokens |-> totalTokens, agentAResponse |-> agentAResponse,
     agentBResponse |-> agentBResponse, result |-> result, error |-> error,
     callLog |-> callLog, promptLog |-> promptLog, cbCalls |-> cbCalls,
     cbSnapshot |-> cbSnapshot, attemptLog |-> attemptLog]

\* the locals of run r become the session variables
Resume(r) ==
    /\ pc' = r.pc
    /\ initialQuery' = r.initialQuery
    /\ maxIterations' = r.maxIterations
    /\ temperature' = r.temperature
    /\ onIteration' = r.onIteration
    /\ openaiApiKey' = r.openaiApiKey
    /\ usageReported' = r.usageReported
    /\ i' = r.i
    /\ agent' = r.agent
    /\ attempt' = r.attempt
    /\ delay' = r.delay
    /\ conversation' = r.conversation
    /\ totalTokens' = r.totalTokens
    /\ agentAResponse' = r.agentAResponse
    /\ agentBResponse' = r.agentBResponse
    /\ result' = r.result
    /\ error' = r.error
    /\ callLog' = r.callLog
    /\ promptLog' = r.promptLog
    /\ cbCalls' = r.cbCalls
    /\ cbSnapshot' = r.cbSnapshot
    /\ attemptLog' = r.attemptLog

\* the token accumulator kept in one place for both runs
SwitchRun_SharedTotals ==
    /\ Resume([other EXCEPT !.totalTokens = totalTokens])
    /\ other' = Self
    /\ current' = 3 - current
    /\ UNCHANGED <<tracing, cancelRequested, apiVars, evalVars>>

\* the executing run is at an await (or not called yet, or settled) and the
\* event loop turns to the other run
SwitchRun ==
    /\ Resume(other)
    /\ other' = Self
    /\ current' = 3 - current
    /\ UNCHANGED <<tracing, cancelRequested, apiVars, evalVars>>

\* converge("q", {maxIterations: 1}) with the key set
PairConverge ==
    /\ ConvergeWith({Num(1, 0)})
    /\ initialQuery' = JSString(<<"q">>)
    /\ temperature' = Num(0, 0)
    /\ ~onIteration'
    /\ openaiApiKey'

PairNext ==
    \/ SwitchRun
    \/ PairConverge
    \/ CallRejects
    \/ EmptyContent
    \/ ParseFails
    \/ InvalidFormat
    \/ BackoffElapses
    \/ PartyAReplies
    \/ PartyBReplies

PairSpec == Init /\ [][PairNext]_vars


(***************************************************************************)
(* The evaluators applied to one reply: every combination of the continue  *)
(* flag, a gap list of up to MaxEvalGaps entries and a confidence.  No     *)
(* session runs under this specification.                                  *)
(***************************************************************************)
EvalReplies ==
    { [id |-> 0, response |-> "text", continue |-> c,
       missingContext |-> GapList(n), confidence |-> k, tokens |-> NoTokens] :
         c \in BOOLEAN, n \in 0..MaxEvalGaps, k \in {0, 50, 100} }

EvalInit ==
    /\ SessionInit
    /\ tracing = FALSE
    /\ evalReply \in EvalReplies
    /\ evalOut = [converged |-> <<>>, score |-> <<>>, fewer |-> <<>>]
    /\ rawPayload = Payload("", "false", TRUE, <<>>)
    /\ rawUsage = NoUsage
    /\ verdict = ""
    /\ tokenPricing = TOKEN_PRICING
    /\ CostIdle

EvalHasConverged ==
    /\ evalOut.converged = <<>>
    /\ evalOut' = [evalOut EXCEPT !.converged = <<hasConverged(evalReply)>>]
    /\ UNCHANGED <<evalReply, rawPayload, rawUsage, verdict, tokenPricing, costArgs,
                   costOut>>
    /\ UNCHANGED <<sessionVars, apiVars>>

EvalScore ==
    /\ evalOut.score = <<>>
    /\ evalOut' = [evalOut EXCEPT !.score = <<getConvergenceScore(evalReply)>>]
    /\ UNCHANGED <<evalReply, rawPayload, rawUsage, verdict, tokenPricing, costArgs,
                   costOut>>
    /\ UNCHANGED <<sessionVars, apiVars>>

\* getConvergenceScore applied to the same reply with its last gap removed
EvalScoreOneGapLess ==
    /\ evalOut.fewer = <<>>
    /\ evalReply.missingContext # <<>>
    /\ evalOut' =
          [evalOut EXCEPT !.fewer =
             <<getConvergenceScore(
                 [evalReply EXCEPT !.missingContext =
                     SubSeq(@, 1, Len(@) - 1)])>>]
    /\ UNCHANGED <<evalReply, rawPayload, rawUsage, verdict, tokenPricing, costArgs,
                   costOut>>
    /\ UNCHANGED <<sessionVars, apiVars>>

EvalNext == EvalHasConverged \/ EvalScore \/ EvalScoreOneGapLess

EvalSpec == EvalInit /\ [][EvalNext]_vars


(***************************************************************************)
(* One-iteration sessions with every attempt logged: converge() is called  *)
(* with maxIterations = 1, so queryOpenAI runs once for Party A and at     *)
(* most once for Party B, and attemptLog records how each chat-completion  *)
(* call settled and the wait that followed it.                             *)
(***************************************************************************)
TurnInit ==
    /\ SessionInit
    /\ tracing = TRUE
    /\ HarnessIdle

TurnConverge == ConvergeWith({Num(1, 0)})

TurnNext ==
    \/ TurnConverge
    \/ CallRejects
    \/ EmptyContent
    \/ ParseFails
    \/ InvalidFormat
    \/ BackoffElapses
    \/ PartyAReplies
    \/ PartyBReplies

TurnSpec == TurnInit /\ [][TurnNext]_vars


(***************************************************************************)
(* Sessions whose caller may ask, at any moment while the run is in        *)
(* progress, that it be abandoned.  converge() reads no signal from its    *)
(* options (src/index.js:214-224) and queryOpenAI none from its            *)
(* own (src/index.js:45-53): the request changes nothing but the           *)
(* environment.                                                            *)
(***************************************************************************)
RaiseCancel ==
    /\ pc \in {"awaitAPI", "backoff"}
    /\ ~cancelRequested
    /\ cancelRequested' = TRUE
    /\ UNCHANGED <<pc, initialQuery, maxIterations, temperature, onIteration,
                   openaiApiKey, usageReported, i, agent, attempt, delay,
                   conversation, totalTokens, agentAResponse, agentBResponse,
                   result, error, callLog, promptLog, cbCalls, cbSnapshot,
                   tracing, attemptLog, current, other, apiVars>>
    /\ UNCHANGED evalVars

CancelNext ==
    \/ RaiseCancel
    \/ Converge
    \/ CallRejects
    \/ EmptyContent
    \/ ParseFails
    \/ InvalidFormat
    \/ BackoffElapses
    \/ PartyAReplies
    \/ PartyBReplies

CancelSpec == Init /\ [][CancelNext]_vars


(***************************************************************************)
(* The validation of src/index.js:100 applied to one decoded payload:      *)
(* every combination of a response that is a string, an empty string, a    *)
(* number or absent; a continue that is a boolean, a string or absent; a   *)
(* missingContext that is no array or an array of up to MaxGaps items,     *)
(* each a string or a number; and a confidence that is present or absent.  *)
(* No session runs under this specification.                               *)
(***************************************************************************)
MissingContexts ==
    { [isArray |-> FALSE, items |-> <<>>, itemTypes |-> <<>>] } \cup
    UNION { { [isArray |-> TRUE, items |-> GapList(n), itemTypes |-> ts] :
                ts \in [1..n -> {"string", "number"}] } : n \in 0..MaxGaps }

DecodedPayloads ==
    { DecodedPayload(r[1], r[2], c, mc, conf) :
        r \in { <<"string", "text">>, <<"string", "">>, <<"number", "5">>,
                <<"undefined", "">> },
        c \in {"true", "false", "\"no\"", "undefined"},
        mc \in MissingContexts,
        conf \in {"90", "undefined"} }

\* response.usage: absent, or a report carrying any of the three counts
UsageReports ==
    { NoUsage } \cup
    { [present |-> TRUE, fields |-> fs, prompt_tokens |-> 3,
       completion_tokens |-> 2, total_tokens |-> 5] : fs \in SUBSET UsageFields }

ParseInit ==
    /\ SessionInit
    /\ tracing = FALSE
    /\ evalReply = NullReply
    /\ evalOut = [converged |-> <<>>, score |-> <<>>, fewer |-> <<>>]
    /\ rawPayload \in DecodedPayloads
    /\ rawUsage \in UsageReports
    /\ verdict = ""
    /\ tokenPricing = TOKEN_PRICING
    /\ CostIdle

\* src/index.js:100-102, then 105-112: evalReply is the object returned
Validate ==
    /\ verdict = ""
    /\ verdict' = IF ValidFormat(rawPayload)
                  THEN "accepted"
                  ELSE InvalidFormatError.message
    /\ evalReply' = IF ValidFormat(rawPayload)
                    THEN MakeReply(rawPayload, rawUsage, 0)
                    ELSE evalReply
    /\ UNCHANGED <<evalOut, rawPayload, rawUsage, tokenPricing, costArgs,
                   costOut>>
    /\ UNCHANGED <<sessionVars, apiVars>>

ParseNext == Validate

ParseSpec == ParseInit /\ [][ParseNext]_vars


(***************************************************************************)
(* calculateTokenCost applied to token counts (p1, c1) and (p2, c2), to    *)
(* their sum and to the double of the first, for one model identifier: a   *)
(* key of the table, an identifier the table does not know (the empty      *)
(* string included), or a name the table inherits; and to (p1, c1) for     *)
(* the default model.  Token counts are 0..MaxTokens, and the 500 and      *)
(* 1000 of the test at src/test/test-convergence.js:141.  No session runs  *)
(* under this specification.                                               *)
(***************************************************************************)
TokenCounts == 0..MaxTokens \cup {500, 1000}

ModelIdentifiers ==
    DOMAIN TOKEN_PRICING \cup {"", "gpt-5", "toString", "constructor"}

CostInit ==
    /\ SessionInit
    /\ tracing = FALSE
    /\ evalReply = NullReply
    /\ evalOut = [converged |-> <<>>, score |-> <<>>, fewer |-> <<>>]
    /\ rawPayload = Payload("", "false", TRUE, <<>>)
    /\ rawUsage = NoUsage
    /\ verdict = ""
    /\ tokenPricing = TOKEN_PRICING
    /\ costArgs \in [p1 : TokenCounts, c1 : TokenCounts, p2 : TokenCounts,
                      c2 : TokenCounts, model : ModelIdentifiers]
    /\ costOut = [first |-> <<>>, second |-> <<>>, sum |-> <<>>,
                  double |-> <<>>, default |-> <<>>]

\* one call of calculateTokenCost whose value is kept under out: the call
\* writes nothing else
CalculateInto(out, promptTokens, completionTokens, model) ==
    /\ costOut[out] = <<>>
    /\ costOut' = [costOut EXCEPT ![out] =
                     <<calculateTokenCost(promptTokens, completionTokens,
                                          model)>>]
    /\ UNCHANGED <<tokenPricing, costArgs, evalReply, evalOut, rawPayload, rawUsage,
                   verdict>>
    /\ UNCHANGED <<sessionVars, apiVars>>

CalcFirst ==
    CalculateInto("first", costArgs.p1, costArgs.c1, costArgs.model)

CalcSecond ==
    CalculateInto("second", costArgs.p2, costArgs.c2, costArgs.model)

CalcSum ==
    CalculateInto("sum", costArgs.p1 + costArgs.p2,
                  costArgs.c1 + costArgs.c2, costArgs.model)

CalcDouble ==
    CalculateInto("double", 2 * costArgs.p1, 2 * costArgs.c1, costArgs.model)

CalcDefault ==
    CalculateInto("default", costArgs.p1, costArgs.c1, DefaultModel)

CostNext ==
    \/ CalcFirst
    \/ CalcSecond
    \/ CalcSum
    \/ CalcDouble
    \/ CalcDefault

CostSpec == CostInit /\ [][CostNext]_vars


(***************************************************************************)
(* The API server: src/api/server.js.  A request with a webhookUrl becomes *)
(* a task whose status is kept in the tasks Map; handleConvergence runs it *)
(* either from setImmediate or, when REDIS_URL is set, as the processor of *)
(* a Bull queue created with attempts: 3.  converge() is seen from outside *)
(* here: a call of it either returns a result or throws.                   *)
(***************************************************************************)

\* src/api/server.js:88
maxAttempts == 3

\* src/api/server.js:66, defaultJobOptions.attempts
queueAttempts == 3

\* a task id no request was given
UnknownTaskId == 0

\* recordTask(taskId, status): the Map entry of the task is replaced
recordTask(taskId, status) == tasks' = [tasks EXCEPT ![taskId] = status]

\* res.status(code).json(...) of the POST handler
Answer(taskId, code, status) ==
    httpLog' = httpLog \cup {[taskId |-> taskId, code |-> code, status |-> status]}

Answered(taskId) == \E r \in httpLog : r.taskId = taskId

\* crypto.randomUUID(): an id that is in no record
FreshId(t) ==
    /\ tasks[t] = "absent"
    /\ \A u \in TaskIds : u < t => tasks[u] # "absent"

\* the delay of sendWebhook after the failed attempt att: server.js:100
WebhookDelay(att) == 1000 * 2 ^ (att - 1)

\* the body fails Joi validation: 400, nothing else happens
PostInvalid ==
    /\ Answer(UnknownTaskId, 400, "")
    /\ UNCHANGED <<USE_QUEUE, tasks, handler, statusReply>>
    /\ UNCHANGED <<sessionVars, evalVars, tenantVars>>

\* POST /api/v1/converge with a webhookUrl, up to the first await or the
\* 202: the task is recorded 'queued', then handed to the queue or to
\* setImmediate
PostConverge ==
    /\ \E t \in TaskIds :
        /\ FreshId(t)
        /\ recordTask(t, "queued")
        /\ IF USE_QUEUE
           THEN /\ handler' = [handler EXCEPT ![t].pc = "adding"]
                /\ UNCHANGED httpLog
           ELSE /\ handler' = [handler EXCEPT ![t].pc = "scheduled"]
                /\ Answer(t, 202, "queued")
    /\ UNCHANGED <<USE_QUEUE, statusReply>>
    /\ UNCHANGED <<sessionVars, evalVars, tenantVars>>

\* convergeQueue.add stored the job: the processor may take it
JobStored(t) ==
    /\ handler[t].pc = "adding"
    /\ handler' = [handler EXCEPT ![t].pc = "scheduled"]
    /\ UNCHANGED <<USE_QUEUE, tasks, httpLog, statusReply>>
    /\ UNCHANGED <<sessionVars, evalVars, tenantVars>>

\* await convergeQueue.add(payload) resolves: 202
AddResolves(t) ==
    /\ USE_QUEUE
    /\ handler[t].pc \notin {"none", "adding", "dropped", "sync"}
    /\ ~Answered(t)
    /\ Answer(t, 202, "queued")
    /\ UNCHANGED <<USE_QUEUE, tasks, handler, statusReply>>
    /\ UNCHANGED <<sessionVars, evalVars, tenantVars>>

\* await convergeQueue.add(payload) rejects: next(err), no job exists
AddRejects(t) ==
    /\ handler[t].pc = "adding"
    /\ handler' = [handler EXCEPT ![t].pc = "dropped"]
    /\ Answer(t, 500, "")
    /\ UNCHANGED <<USE_QUEUE, tasks, statusReply>>
    /\ UNCHANGED <<sessionVars, evalVars, tenantVars>>

\* POST /api/v1/converge without a webhookUrl: converge() is awaited in the
\* request; a result is recorded 'completed' under a fresh id, an exception
\* goes to next(err)
PostConvergeSync ==
    /\ \/ \E t \in TaskIds :
            /\ FreshId(t)
            /\ recordTask(t, "completed")
            /\ handler' = [handler EXCEPT ![t].pc = "sync",
                                          ![t].outcome = "returned"]
            /\ Answer(t, 200, "completed")
       \/ /\ Answer(UnknownTaskId, 500, "")
          /\ UNCHANGED <<tasks, handler>>
    /\ UNCHANGED <<USE_QUEUE, statusReply>>
    /\ UNCHANGED <<sessionVars, evalVars, tenantVars>>

\* handleConvergence(data) is entered, by setImmediate or by the queue's
\* processor (again after a failed attempt): server.js:109-113
StartHandle(t) ==
    /\ handler[t].pc = "scheduled"
    /\ recordTask(t, "processing")
    /\ handler' = [handler EXCEPT ![t].pc = "converging",
                                  ![t].outcome = "pending"]
    /\ UNCHANGED <<USE_QUEUE, httpLog, statusReply>>
    /\ UNCHANGED <<sessionVars, evalVars, tenantVars>>

\* converge() returned: the task is recorded 'completed', then sendWebhook
\* is entered and issues its first POST (server.js:131-135, 87-92)
ConvergeReturns(t) ==
    /\ handler[t].pc = "converging"
    /\ recordTask(t, "completed")
    /\ handler' = [handler EXCEPT ![t].pc = "posting",
                                  ![t].outcome = "returned",
                                  ![t].attempt = 1]
    /\ UNCHANGED <<USE_QUEUE, httpLog, statusReply>>
    /\ UNCHANGED <<sessionVars, evalVars, tenantVars>>

\* converge() threw: the task is recorded 'failed' and the error rethrown,
\* to the queue or to the .catch(() => {}) of the setImmediate callback
ConvergeThrows(t) ==
    /\ handler[t].pc = "converging"
    /\ recordTask(t, "failed")
    /\ handler' = [handler EXCEPT
                     ![t].pc = IF USE_QUEUE THEN "rejected" ELSE "threw",
                     ![t].outcome = "threw",
                     ![t].attemptsMade = @ + 1]
    /\ UNCHANGED <<USE_QUEUE, httpLog, statusReply>>
    /\ UNCHANGED <<sessionVars, evalVars, tenantVars>>

\* the queue's 'failed' event (server.js:76-79) after a rejected attempt;
\* with attempts left the job is scheduled again
JobFailed(t) ==
    /\ handler[t].pc = "rejected"
    /\ tasks' = [tasks EXCEPT ![t] = "failed"]
    /\ handler' = [handler EXCEPT
                     ![t].pc = IF handler[t].attemptsMade < queueAttempts
                               THEN "scheduled" ELSE "threw"]
    /\ UNCHANGED <<USE_QUEUE, httpLog, statusReply>>
    /\ UNCHANGED <<sessionVars, evalVars, tenantVars>>

\* the fetch of sendWebhook settles: a 2xx answer returns true; another
\* answer or a rejected fetch is caught, and either ends the delivery with
\* false or starts the timer (server.js:92-103).  handleConvergence then
\* returns the summary.
WebhookSettles_ThrowsAfterLast(t, outcome) ==
    /\ handler[t].pc = "posting"
    /\ IF outcome = "ok"
       THEN /\ handler' = [handler EXCEPT ![t].pc = "returned",
                                          ![t].delivered = "true"]
            /\ UNCHANGED tasks
       ELSE IF handler[t].attempt = maxAttempts
       THEN /\ handler' = [handler EXCEPT ![t].pc = "threw",
                                          ![t].outcome = "threw",
                                          ![t].delivered = "threw"]
            /\ recordTask(t, "failed")
       ELSE /\ handler' = [handler EXCEPT
                             ![t].pc = "waiting",
                             ![t].delay = WebhookDelay(handler[t].attempt),
                             ![t].waits =
                                 Append(@, WebhookDelay(handler[t].attempt))]
            /\ UNCHANGED tasks
    /\ UNCHANGED <<USE_QUEUE, httpLog, statusReply>>
    /\ UNCHANGED <<sessionVars, evalVars, tenantVars>>

WebhookSettles(t, outcome) ==
    /\ handler[t].pc = "posting"
    /\ IF outcome = "ok"
       THEN handler' = [handler EXCEPT ![t].pc = "returned",
                                       ![t].delivered = "true"]
       ELSE IF handler[t].attempt = maxAttempts
       THEN handler' = [handler EXCEPT ![t].pc = "returned",
                                       ![t].delivered = "false"]
       ELSE handler' = [handler EXCEPT
                          ![t].pc = "waiting",
                          ![t].delay = WebhookDelay(handler[t].attempt),
                          ![t].waits =
                              Append(@, WebhookDelay(handler[t].attempt))]
    /\ UNCHANGED <<USE_QUEUE, tasks, httpLog, statusReply>>
    /\ UNCHANGED <<sessionVars, evalVars, tenantVars>>

\* the timer of sendWebhook fires: the loop issues the next POST
WebhookTimerFires(t) ==
    /\ handler[t].pc = "waiting"
    /\ handler' = [handler EXCEPT ![t].pc = "posting",
                                  ![t].attempt = @ + 1]
    /\ UNCHANGED <<USE_QUEUE, tasks, httpLog, statusReply>>
    /\ UNCHANGED <<sessionVars, evalVars, tenantVars>>

\* GET /api/v1/status/:taskId
GetStatus(id) ==
    /\ statusReply' =
         IF id \in TaskIds /\ tasks[id] # "absent"
         THEN [taskId |-> id, code |-> 200, status |-> tasks[id]]
         ELSE [taskId |-> id, code |-> 404, status |-> "Task not found"]
    /\ UNCHANGED <<USE_QUEUE, tasks, handler, httpLog>>
    /\ UNCHANGED <<sessionVars, evalVars, tenantVars>>

\* the server was started, with or without REDIS_URL
TaskInit ==
    /\ USE_QUEUE \in BOOLEAN
    /\ ServerIdle
    /\ TenantIdle
    /\ SessionIdle
    /\ tracing = FALSE
    /\ HarnessIdle

TaskNext ==
    \/ PostInvalid
    \/ PostConverge
    \/ PostConvergeSync
    \/ \E t \in TaskIds : JobStored(t)
    \/ \E t \in TaskIds : AddResolves(t)
    \/ \E t \in TaskIds : AddRejects(t)
    \/ \E t \in TaskIds : StartHandle(t)
    \/ \E t \in TaskIds : ConvergeReturns(t)
    \/ \E t \in TaskIds : ConvergeThrows(t)
    \/ \E t \in TaskIds : JobFailed(t)
    \/ \E t \in TaskIds, outcome \in {"ok", "notOk", "rejects"} :
           WebhookSettles(t, outcome)
    \/ \E t \in TaskIds : WebhookTimerFires(t)
    \/ \E id \in {UnknownTaskId} \cup TaskIds : GetStatus(id)

TaskSpec == TaskInit /\ [][TaskNext]_vars


(***************************************************************************)
(* The operations of the tenant service.                                   *)
(***************************************************************************)
\* SELECT * FROM tenant_environments WHERE id = $1
RowOf(id) == IF id \in EnvIds THEN environments[id] ELSE NoRow

\* provisionTenant up to the INSERT ... RETURNING id: the record is created
\* with status 'provisioning' (tenant-service.js:112-123)
ProvisionTenant ==
    /\ \E e \in EnvIds :
        /\ environments[e].status = "absent"
        /\ \A u \in EnvIds : u < e => environments[u].status # "absent"
        /\ environments' =
               [environments EXCEPT ![e].status = "provisioning"]
        /\ provisioning' = [provisioning EXCEPT ![e].pc = "inserted"]
    /\ UNCHANGED <<destroying, tenantReply>>
    /\ UNCHANGED <<sessionVars, evalVars, serverVars>>

\* the INSERT fails: the outer catch logs and rethrows, no record exists
ProvisionInsertFails ==
    /\ tenantReply' =
           [op |-> "provision", id |-> UnknownEnvId, outcome |-> "error"]
    /\ UNCHANGED <<environments, provisioning, destroying>>
    /\ UNCHANGED <<sessionVars, evalVars, serverVars>>

\* writing the files or creating the network throws before docker-compose
\* up is run (tenant-service.js:128-148): the record stays as inserted
SetupFails(e) ==
    /\ provisioning[e].pc = "inserted"
    /\ provisioning' = [provisioning EXCEPT ![e].pc = "threw"]
    /\ tenantReply' = [op |-> "provision", id |-> e, outcome |-> "error"]
    /\ UNCHANGED <<environments, destroying>>
    /\ UNCHANGED <<sessionVars, evalVars, serverVars>>

\* execSync('docker-compose up -d') succeeded (tenant-service.js:151-153)
ContainerStarts(e) ==
    /\ provisioning[e].pc = "inserted"
    /\ provisioning' = [provisioning EXCEPT ![e].pc = "started",
                                            ![e].up = "ok"]
    /\ environments' = [environments EXCEPT ![e].container = "up"]
    /\ UNCHANGED <<destroying, tenantReply>>
    /\ UNCHANGED <<sessionVars, evalVars, serverVars>>

\* execSync('docker-compose up -d') threw: 'Failed to start container' is
\* thrown, logged by the outer catch and rethrown (154-157, 190-193)
ContainerFails(e) ==
    /\ provisioning[e].pc = "inserted"
    /\ provisioning' = [provisioning EXCEPT ![e].pc = "threw",
                                            ![e].up = "failed"]
    /\ tenantReply' = [op |-> "provision", id |-> e, outcome |-> "error"]
    /\ UNCHANGED <<environments, destroying>>
    /\ UNCHANGED <<sessionVars, evalVars, serverVars>>

\* the UPDATE that stores the container and the status 'running'
\* (tenant-service.js:160-169); reading the container id or the UPDATE
\* itself may throw instead
RecordRunning_BeforeStart(e) ==
    /\ provisioning[e].pc \in {"inserted", "started"}
    /\ \/ /\ environments' = [environments EXCEPT ![e].status = "running",
                                                  ![e].storage_path = TRUE]
          /\ provisioning' = [provisioning EXCEPT ![e].pc = "updated"]
          /\ UNCHANGED tenantReply
       \/ /\ provisioning' = [provisioning EXCEPT ![e].pc = "threw"]
          /\ tenantReply' =
                 [op |-> "provision", id |-> e, outcome |-> "error"]
          /\ UNCHANGED environments
    /\ UNCHANGED destroying
    /\ UNCHANGED <<sessionVars, evalVars, serverVars>>

RecordRunning(e) ==
    /\ provisioning[e].pc = "started"
    /\ \/ /\ environments' = [environments EXCEPT ![e].status = "running",
                                                  ![e].storage_path = TRUE]
          /\ provisioning' = [provisioning EXCEPT ![e].pc = "updated"]
          /\ UNCHANGED tenantReply
       \/ /\ provisioning' = [provisioning EXCEPT ![e].pc = "threw"]
          /\ tenantReply' =
                 [op |-> "provision", id |-> e, outcome |-> "error"]
          /\ UNCHANGED environments
    /\ UNCHANGED destroying
    /\ UNCHANGED <<sessionVars, evalVars, serverVars>>

\* the container row is inserted, the completion logged and the summary
\* with status 'running' returned (tenant-service.js:172-189)
ProvisionReturns(e) ==
    /\ provisioning[e].pc = "updated"
    /\ provisioning' = [provisioning EXCEPT ![e].pc = "returned"]
    /\ tenantReply' = [op |-> "provision", id |-> e, outcome |-> "running"]
    /\ UNCHANGED <<environments, destroying>>
    /\ UNCHANGED <<sessionVars, evalVars, serverVars>>

\* getTenantStatus(envId)
GetTenantStatus(id) ==
    /\ tenantReply' =
         IF RowOf(id).status = "absent"
         THEN [op |-> "status", id |-> id,
               outcome |-> "Environment not found"]
         ELSE [op |-> "status", id |-> id, outcome |-> RowOf(id).status]
    /\ UNCHANGED <<environments, provisioning, destroying>>
    /\ UNCHANGED <<sessionVars, evalVars, serverVars>>

\* destroyTenant(envId) up to the answer of its SELECT: an unknown id
\* throws 'Environment not found'; otherwise the containers of a stored
\* path are taken down and the UPDATE is issued (tenant-service.js:239-261)
DestroyTenant(id) ==
    /\ IF RowOf(id).status = "absent"
       THEN /\ tenantReply' = [op |-> "destroy", id |-> id,
                               outcome |-> "Environment not found"]
            /\ UNCHANGED <<environments, destroying>>
       ELSE /\ destroying[id] \in {"none", "returned", "threw"}
            /\ destroying' = [destroying EXCEPT ![id] = "updating"]
            /\ environments' =
                   [environments EXCEPT ![id].container =
                        IF environments[id].storage_path THEN "down" ELSE @]
            /\ UNCHANGED tenantReply
    /\ UNCHANGED provisioning
    /\ UNCHANGED <<sessionVars, evalVars, serverVars>>

\* the UPDATE of destroyTenant is answered: the status is 'destroyed', the
\* directory removed and { status: 'destroyed' } returned; or the UPDATE
\* throws, which is logged and rethrown (tenant-service.js:258-276)
DestroyUpdates(e) ==
    /\ destroying[e] = "updating"
    /\ \/ /\ environments' = [environments EXCEPT ![e].status = "destroyed"]
          /\ destroying' = [destroying EXCEPT ![e] = "returned"]
          /\ tenantReply' =
                 [op |-> "destroy", id |-> e, outcome |-> "destroyed"]
       \/ /\ destroying' = [destroying EXCEPT ![e] = "threw"]
          /\ tenantReply' = [op |-> "destroy", id |-> e, outcome |-> "error"]
          /\ UNCHANGED environments
    /\ UNCHANGED provisioning
    /\ UNCHANGED <<sessionVars, evalVars, serverVars>>

TenantNext ==
    \/ ProvisionTenant
    \/ ProvisionInsertFails
    \/ \E e \in EnvIds : SetupFails(e)
    \/ \E e \in EnvIds : ContainerStarts(e)
    \/ \E e \in EnvIds : ContainerFails(e)
    \/ \E e \in EnvIds : RecordRunning(e)
    \/ \E e \in EnvIds : ProvisionReturns(e)
    \/ \E id \in {UnknownEnvId} \cup EnvIds : GetTenantStatus(id)
    \/ \E id \in {UnknownEnvId} \cup EnvIds : DestroyTenant(id)
    \/ \E e \in EnvIds : DestroyUpdates(e)

TenantSpec == Init /\ [][TenantNext]_vars


(***************************************************************************)
(*                              PROPERTIES                                 *)
(***************************************************************************)
Returned == pc = "returned" /\ result # <<>>

TurnsOf(ag) == { k \in 1..Len(conversation) : conversation[k].agent = ag }

\* the run returned because the bound was exhausted
Exhausted == Returned /\ ~result[1].converged

\* the two turns of the final iteration in an exhausted run
FinalA == conversation[Len(conversation) - 1].response
FinalB == conversation[Len(conversation)].response

(***************************************************************************)
(* C1.  Early stop on Party A: whenever the conversation holds a Party-A   *)
(* reply of iteration n that satisfies hasConverged, converge() has        *)
(* returned, that reply is the last turn, no call for Party B was issued   *)
(* in iteration n (none at all when n = 1), and the result has             *)
(* converged = true, finalResponse = that reply, convergenceScore = 100    *)
(* and iterations = n.  As it holds in every later state too, no call      *)
(* follows the return.                                                     *)
(***************************************************************************)
C1_EarlyStopOnA ==
    \A k \in TurnsOf("A") :
        LET t == conversation[k]
        IN  hasConverged(t.response) =>
              /\ Returned
              /\ k = Len(conversation)
              /\ <<t.iteration, "B">> \notin callLog
              /\ (t.iteration = 1 => \A c \in callLog : c[2] # "B")
              /\ result[1].converged = TRUE
              /\ result[1].finalResponse = t.response
              /\ result[1].convergenceScore = 100
              /\ result[1].iterations = t.iteration
              /\ result[1].iterations = i + 1

\* Party A converged in iteration 2, after a full first iteration
C1_Witness ==
    /\ Returned
    /\ Len(conversation) = 3
    /\ conversation[3].agent = "A"
    /\ conversation[3].iteration = 2
    /\ hasConverged(conversation[3].response)

(***************************************************************************)
(* C2.  Stop on Party B: whenever the conversation holds a Party-B reply   *)
(* of iteration n that satisfies hasConverged while Party A's reply of     *)
(* iteration n did not, converge() has returned, that reply is the last    *)
(* turn (no call was issued for iteration n + 1), and the result has       *)
(* converged = true, finalResponse = that reply, convergenceScore = 100    *)
(* and iterations = n.                                                     *)
(***************************************************************************)
C2_StopOnB ==
    \A k \in TurnsOf("B") :
        LET t == conversation[k]
        IN  (hasConverged(t.response)
             /\ ~hasConverged(conversation[k - 1].response)) =>
              /\ Returned
              /\ k = Len(conversation)
              /\ conversation[k - 1].agent = "A"
              /\ conversation[k - 1].iteration = t.iteration
              /\ <<t.iteration + 1, "A">> \notin callLog
              /\ result[1].converged = TRUE
              /\ result[1].finalResponse = t.response
              /\ result[1].convergenceScore = 100
              /\ result[1].iterations = t.iteration

\* Party B converged in iteration 2
C2_Witness ==
    /\ Returned
    /\ Len(conversation) = 4
    /\ conversation[4].agent = "B"
    /\ conversation[4].iteration = 2
    /\ hasConverged(conversation[4].response)
    /\ ~hasConverged(conversation[3].response)


Finished == pc \in {"returned", "threw"}

\* converge() rejected its arguments (src/index.js:215-235)
ConfigRejected ==
    /\ pc = "threw"
    /\ error \in {"Invalid initialQuery: must be a non-empty string",
                  "maxIterations must be a positive integer",
                  "temperature must be between 0 and 2"}

\* a queryOpenAI call threw
TurnFailed ==
    /\ pc = "threw"
    /\ error \in {"OpenAI API failed", "OPENAI_API_KEY not set", "lastError"}

NoReplyConverged ==
    \A k \in 1..Len(conversation) : ~hasConverged(conversation[k].response)

RanToTheBound ==
    /\ Returned
    /\ result[1].converged = FALSE
    /\ Cardinality(TurnsOf("A")) = maxIterations.int
    /\ Cardinality(TurnsOf("B")) = maxIterations.int
    /\ Len(conversation) = 2 * maxIterations.int

(***************************************************************************)
(* C3.  Bounded iteration: a run with valid arguments in which no reply    *)
(* satisfies hasConverged and no turn fails ends by returning a result     *)
(* with converged = false after exactly maxIterations Party-A turns and    *)
(* exactly maxIterations Party-B turns; and no run records more than       *)
(* 2 * maxIterations turns.                                                *)
(***************************************************************************)
C3_BoundedIteration ==
    /\ (pc # "idle" /\ ~ConfigRejected) =>
          Len(conversation) <= 2 * maxIterations.int
    /\ (Finished /\ ~ConfigRejected /\ ~TurnFailed /\ NoReplyConverged) =>
          RanToTheBound

\* C3 holds of every run whose onIteration callback does not raise
C3_UnlessObserverThrows ==
    /\ (pc # "idle" /\ ~ConfigRejected) =>
          Len(conversation) <= 2 * maxIterations.int
    /\ (Finished /\ ~ConfigRejected /\ ~TurnFailed /\ NoReplyConverged
        /\ error # "onIteration threw") =>
          RanToTheBound

\* a run with maxIterations = 2 that ran to the bound
C3_Reached ==
    /\ RanToTheBound
    /\ maxIterations.int = 2
    /\ NoReplyConverged

(***************************************************************************)
(* C4 as claimed.  Exhausted result selection: when the loop ends after    *)
(* maxIterations without convergence, finalResponse is the higher-scoring  *)
(* of the final iteration's Party-A and Party-B replies, Party B's when    *)
(* the two scores are equal, and convergenceScore is that reply's score.   *)
(***************************************************************************)
C4_TieGoesToB ==
    Exhausted =>
      /\ result[1].finalResponse =
            (IF getConvergenceScore(FinalB) >= getConvergenceScore(FinalA)
             THEN FinalB ELSE FinalA)
      /\ result[1].convergenceScore =
            getConvergenceScore(result[1].finalResponse)

(***************************************************************************)
(* C4 as amended.  When the loop ends after maxIterations without          *)
(* convergence, finalResponse is the higher-scoring of the final           *)
(* iteration's Party-A and Party-B replies, Party A's (the earlier one)    *)
(* when the two scores are equal, and convergenceScore is that reply's     *)
(* score.                                                                  *)
(***************************************************************************)
C4_TieGoesToA ==
    Exhausted =>
      /\ conversation[Len(conversation) - 1].agent = "A"
      /\ conversation[Len(conversation)].agent = "B"
      /\ conversation[Len(conversation) - 1].iteration = maxIterations.int
      /\ conversation[Len(conversation)].iteration = maxIterations.int
      /\ result[1].finalResponse =
            (IF getConvergenceScore(FinalA) >= getConvergenceScore(FinalB)
             THEN FinalA ELSE FinalB)
      /\ result[1].convergenceScore =
            getConvergenceScore(result[1].finalResponse)

\* an exhausted run whose two final replies have the same score
C4_Witness ==
    /\ Exhausted
    /\ getConvergenceScore(FinalA) = getConvergenceScore(FinalB)
    /\ FinalA # FinalB
    /\ result[1].finalResponse = FinalA

(***************************************************************************)
(* C5 as claimed.  Best of all turns on exhaustion: when the bound is      *)
(* exhausted with maxIterations >= 2, finalResponse is the reply with the  *)
(* highest score among all turns of the session, the latest one among      *)
(* equals, so no turn has a strictly higher score than convergenceScore.   *)
(***************************************************************************)
C5_BestOfAllTurns ==
    (Exhausted /\ maxIterations.int >= 2) =>
      /\ \A k \in 1..Len(conversation) :
            getConvergenceScore(conversation[k].response)
               <= result[1].convergenceScore
      /\ result[1].finalResponse = BestTurn(conversation)

(***************************************************************************)
(* C5 as amended.  When the bound is exhausted with maxIterations >= 2,    *)
(* finalResponse is one of the two replies of the final iteration, no      *)
(* reply of the final iteration has a strictly higher score than           *)
(* convergenceScore, and convergenceScore is the score of finalResponse;   *)
(* the turns of earlier iterations are not considered.                     *)
(***************************************************************************)
C5_BestOfFinalIteration ==
    (Exhausted /\ maxIterations.int >= 2) =>
      /\ result[1].finalResponse \in {FinalA, FinalB}
      /\ result[1].finalResponse.id >= Len(conversation) - 1
      /\ \A k \in 1..Len(conversation) :
            conversation[k].iteration = maxIterations.int =>
               getConvergenceScore(conversation[k].response)
                  <= result[1].convergenceScore
      /\ result[1].convergenceScore =
            getConvergenceScore(result[1].finalResponse)

\* an exhausted run in which a reply of an earlier iteration outscores the
\* returned one
C5_Witness ==
    /\ Exhausted
    /\ maxIterations.int >= 2
    /\ \E k \in 1..Len(conversation) :
          /\ conversation[k].iteration < maxIterations.int
          /\ getConvergenceScore(conversation[k].response)
                > result[1].convergenceScore


(***************************************************************************)
(* C6.  hasConverged(reply) is true exactly when reply.continue is false   *)
(* and reply.missingContext is empty: it is true for continue = false with *)
(* no gap, false whenever continue is true, and false whenever there is    *)
(* at least one gap.  (Under EvalSpec.)                                    *)
(***************************************************************************)
C6_HasConvergedTable ==
    evalOut.converged # <<>> =>
      LET c == evalReply.continue
          n == Len(evalReply.missingContext)
          out == evalOut.converged[1]
      IN  /\ (c = FALSE /\ n = 0) => out = TRUE
          /\ c = TRUE => out = FALSE
          /\ n > 0 => out = FALSE

\* hasConverged was applied to a reply with continue = false and three gaps
C6_Witness ==
    /\ evalOut.converged = <<FALSE>>
    /\ evalReply.continue = FALSE
    /\ Len(evalReply.missingContext) = 3

C8_PredicateAgreesWithScore ==
    (evalOut.converged # <<>> /\ evalOut.score # <<>>) =>
        evalOut.converged[1] = (evalOut.score[1] = 100)

\* both evaluators were applied to the reply with continue = false, no gap
C8_Witness ==
    /\ evalOut.converged = <<TRUE>>
    /\ evalOut.score = <<100>>
    /\ evalReply.continue = FALSE
    /\ evalReply.missingContext = <<>>


(***************************************************************************)
(* C9.  A turn failure aborts the whole run: when an in-flight call        *)
(* settles without a reply being accepted and without a retry being        *)
(* scheduled, converge() rejects in that very step, with no result object  *)
(* and no further call; and a rejected run stays rejected: it issues no    *)
(* call, records no turn and never gets a result.                          *)
(***************************************************************************)
C9_TurnFailureAborts ==
    [][ /\ (pc = "awaitAPI" /\ conversation' = conversation
            /\ pc' # "backoff") =>
              /\ pc' = "threw"
              /\ result' = <<>>
              /\ callLog' = callLog
        /\ pc = "threw" =>
              /\ pc' = "threw"
              /\ result' = <<>>
              /\ callLog' = callLog
              /\ conversation' = conversation ]_vars

\* Party B's call of iteration 2 failed after its last retry
C9_Witness ==
    /\ pc = "threw"
    /\ error = "OpenAI API failed"
    /\ agent = "B"
    /\ attempt = maxRetries
    /\ Len(conversation) = 3
    /\ result = <<>>

(***************************************************************************)
(* C10.  Precondition failures make no external call: once converge() was  *)
(* called with a query that is not a string or is empty or blank, or with  *)
(* a maxIterations that is not an integer >= 1, or with a temperature      *)
(* below 0 or above 2, it has rejected with an error naming one of the     *)
(* offending parameters, no chat-completion call was issued and no turn    *)
(* was recorded.                                                           *)
(***************************************************************************)
BadQuery ==
    \/ initialQuery.type # "string"
    \/ \A k \in 1..Len(initialQuery.chars) : initialQuery.chars[k] = " "

BadMaxIterations == ~(maxIterations.frac = 0 /\ maxIterations.int >= 1)

BadTemperature ==
    \/ temperature.int < 0
    \/ temperature.int > 2
    \/ (temperature.int = 2 /\ temperature.frac > 0)

C10_PreconditionFailures ==
    (pc # "idle" /\ (BadQuery \/ BadMaxIterations \/ BadTemperature)) =>
      /\ pc = "threw"
      /\ result = <<>>
      /\ callLog = {}
      /\ conversation = <<>>
      /\ attempt = 0
      /\ \/ BadQuery /\
              error = "Invalid initialQuery: must be a non-empty string"
         \/ BadMaxIterations /\
              error = "maxIterations must be a positive integer"
         \/ BadTemperature /\
              error = "temperature must be between 0 and 2"

\* a fractional maxIterations was rejected
C10_Witness ==
    /\ pc = "threw"
    /\ ~BadQuery
    /\ maxIterations = Num(1, 5)
    /\ error = "maxIterations must be a positive integer"
    /\ callLog = {}


(***************************************************************************)
(* The attempts of queryOpenAI, read from attemptLog (under TurnSpec).     *)
(***************************************************************************)
\* the logged attempts of the turn of party ag in iteration it, in order
TurnAttempts(it, ag) ==
    SelectSeq(attemptLog, LAMBDA e : e.iteration = it /\ e.agent = ag)

Failed(e) == e.error # NoError

\* a failure with HTTP status 429, 500 or 503
TransientFailure(e) == Failed(e) /\ e.error.status \in {429, 500, 503}

\* a rejected call whose error carries no HTTP status
TransportError(e) == e.error = ApiError(0)

\* a transport-successful response that is empty, unparseable or invalid
ContractViolation(e) ==
    e.error.message \in {EmptyResponseError.message, SyntaxError.message,
                         InvalidFormatError.message}

\* a turn was recorded in the conversation for party ag in iteration it
Recorded(it, ag) ==
    \E t \in 1..Len(conversation) :
        conversation[t].iteration = it /\ conversation[t].agent = ag

\* L is the log of a turn: attempts are numbered from 1; only a transient
\* failure followed by a wait is followed by another attempt; the first
\* wait is retryDelay and each later wait is twice the previous one; an
\* accepted reply is recorded and is the turn's last attempt
WellFormedTurnLog(L, it, ag) ==
    /\ \A k \in 1..Len(L) : L[k].attempt = k
    /\ \A k \in 1..(Len(L) - 1) : TransientFailure(L[k]) /\ L[k].wait > 0
    /\ \A k \in 1..Len(L) :
          L[k].wait > 0 =>
             L[k].wait = (IF k = 1 THEN 1000 ELSE 2 * L[k - 1].wait)
    /\ \A k \in 1..Len(L) :
          ~Failed(L[k]) => (k = Len(L) /\ L[k].wait = 0 /\ Recorded(it, ag))

\* after the n-th logged attempt of the turn in progress a retry is under
\* way: its wait is running, or the next attempt is in flight
RetryPending(L) ==
    /\ L[Len(L)].wait > 0
    /\ \/ (pc = "backoff" /\ delay = L[Len(L)].wait /\ attempt = Len(L))
       \/ (pc = "awaitAPI" /\ delay = 0 /\ attempt = Len(L) + 1)

\* the turn was reported as failed after the last logged attempt, unwaited
ReportedFailed(L) ==
    /\ L[Len(L)].wait = 0
    /\ pc = "threw"
    /\ error = "OpenAI API failed"
    /\ result = <<>>

(***************************************************************************)
(* C11 as claimed.  Retry with exponential backoff: when every attempt of  *)
(* a turn fails with a transient failure, the executor retries maxRetries  *)
(* times after the initial attempt (maxRetries + 1 attempts in all),       *)
(* waiting retryDelay before the first retry and twice the previous wait   *)
(* before each later one, and only then reports the turn as failed; an     *)
(* accepted reply is returned and ends the turn's attempts.                *)
(***************************************************************************)
C11_MaxRetriesAfterInitial ==
    \A c \in callLog :
        LET L == TurnAttempts(c[1], c[2])
        IN  /\ WellFormedTurnLog(L, c[1], c[2])
            /\ (Len(L) > 0 /\ \A k \in 1..Len(L) : TransientFailure(L[k])) =>
                  IF Len(L) < maxRetries + 1
                  THEN RetryPending(L)
                  ELSE ReportedFailed(L)

(***************************************************************************)
(* C11 as amended.  When every attempt of a turn fails with a transient    *)
(* failure (HTTP 429, 500 or 503), the executor makes maxRetries attempts  *)
(* in all (default 3), that is maxRetries - 1 retries after the initial    *)
(* attempt, waiting retryDelay (1000 ms) before the first retry and twice  *)
(* the previous wait before each later one, and reports the turn as        *)
(* failed right after the maxRetries-th failure, without a further wait;   *)
(* if some attempt succeeds its reply is returned and no further attempt   *)
(* is made for the turn.                                                   *)
(***************************************************************************)
C11_MaxRetriesAttemptsInAll ==
    \A c \in callLog :
        LET L == TurnAttempts(c[1], c[2])
        IN  /\ WellFormedTurnLog(L, c[1], c[2])
            /\ Len(L) <= maxRetries
            /\ (Len(L) > 0 /\ \A k \in 1..Len(L) : TransientFailure(L[k])) =>
                  IF Len(L) < maxRetries
                  THEN RetryPending(L)
                  ELSE ReportedFailed(L)

\* Party A's turn failed after three transient failures, having waited
\* 1000 ms and then 2000 ms
C11_Witness ==
    /\ pc = "threw"
    /\ Len(attemptLog) = 3
    /\ \A k \in 1..3 : TransientFailure(attemptLog[k])
    /\ attemptLog[1].wait = 1000
    /\ attemptLog[2].wait = 2000
    /\ attemptLog[3].wait = 0
    /\ attempt = 3

(***************************************************************************)
(* C12 as claimed.  Transient classification: a failure is retried if it   *)
(* is an HTTP 429, 500 or 503 failure or a transport error (a failure      *)
(* carrying no HTTP status); so whenever such a failure occurs before the  *)
(* last attempt, in particular a transport error on the first attempt, a   *)
(* wait follows and then another attempt, not the failure of the turn.     *)
(***************************************************************************)
C12_TransportErrorsRetried ==
    \A k \in 1..Len(attemptLog) :
        LET e == attemptLog[k]
        IN  (e.attempt < maxRetries
             /\ (TransientFailure(e) \/ TransportError(e))) =>
               /\ e.wait > 0
               /\ ~(pc = "threw" /\ k = Len(attemptLog))

(***************************************************************************)
(* C12 as amended.  Transient classification: a failed attempt is          *)
(* followed by a wait and another attempt exactly when it is an HTTP 429,  *)
(* 500 or 503 failure and it is not the maxRetries-th attempt; a transport *)
(* error (a failure carrying no HTTP status) is not retried: when it       *)
(* occurs, on the first attempt included, the turn fails at once, no wait  *)
(* and no further attempt follows.                                         *)
(***************************************************************************)
C12_OnlyStatusFailuresRetried ==
    \A k \in 1..Len(attemptLog) :
        LET e == attemptLog[k]
        IN  /\ Failed(e) =>
                 (e.wait > 0 <=>
                    (e.error.status \in {429, 500, 503}
                     /\ e.attempt < maxRetries))
            /\ (Failed(e) /\ e.wait = 0) =>
                 (k = Len(attemptLog) /\ pc = "threw")
            /\ TransportError(e) =>
                 /\ e.wait = 0
                 /\ k = Len(attemptLog)
                 /\ pc = "threw"
                 /\ error = "OpenAI API failed"
                 /\ attempt = e.attempt

\* a transport error on Party A's first attempt failed the turn
C12_Witness ==
    /\ Len(attemptLog) = 1
    /\ TransportError(attemptLog[1])
    /\ attemptLog[1].attempt = 1
    /\ attemptLog[1].wait = 0
    /\ pc = "threw"
    /\ attempt = 1

(***************************************************************************)
(* C13.  Non-transient failures are never retried: once an attempt has     *)
(* failed with an HTTP status that is not 429, 500 or 503 (400 or 401),    *)
(* the turn has failed with that attempt as its last one (its only one     *)
(* when it was the first), no backoff wait was started and no further      *)
(* chat-completion call was issued, for this turn or any later one.        *)
(***************************************************************************)
C13_NonTransientNotRetried ==
    \A k \in 1..Len(attemptLog) :
        LET e == attemptLog[k]
        IN  (Failed(e) /\ e.error.status \in {400, 401}) =>
              /\ e.wait = 0
              /\ delay = 0
              /\ k = Len(attemptLog)
              /\ pc = "threw"
              /\ error = "OpenAI API failed"
              /\ result = <<>>
              /\ attempt = e.attempt
              /\ Len(TurnAttempts(e.iteration, e.agent)) = e.attempt
              /\ (e.agent = "A" => callLog = {<<1, "A">>})
              /\ ~Recorded(e.iteration, e.agent)

\* Party B's first attempt failed with HTTP 401
C13_Witness ==
    /\ pc = "threw"
    /\ Len(attemptLog) >= 2
    /\ attemptLog[Len(attemptLog)].agent = "B"
    /\ attemptLog[Len(attemptLog)].attempt = 1
    /\ attemptLog[Len(attemptLog)].error = ApiError(401)
    /\ attempt = 1

\* the number of accepted replies in the log
RECURSIVE AcceptedCount(_)
AcceptedCount(L) ==
    IF L = <<>> THEN 0
    ELSE (IF Failed(Head(L)) THEN 0 ELSE 1) + AcceptedCount(Tail(L))

(***************************************************************************)
(* C14.  A contract violation is terminal and never scored: once a call    *)
(* has resolved with empty content, with content that is not JSON or with  *)
(* a payload that fails the validation of queryOpenAI, no retry was made   *)
(* even when attempts remained (no wait, no further call), the turn and    *)
(* the run have failed without a result, no turn was recorded for that     *)
(* party in that iteration, and the party's reply variable (the only       *)
(* thing hasConverged and getConvergenceScore are applied to) was not      *)
(* assigned, neither the malformed reply nor a default; the conversation   *)
(* holds exactly the accepted replies.                                     *)
(***************************************************************************)
C14_ContractViolationTerminal ==
    /\ \A k \in 1..Len(attemptLog) :
        LET e == attemptLog[k]
        IN  ContractViolation(e) =>
              /\ e.wait = 0
              /\ delay = 0
              /\ k = Len(attemptLog)
              /\ pc = "threw"
              /\ error = "OpenAI API failed"
              /\ result = <<>>
              /\ attempt = e.attempt
              /\ ~Recorded(e.iteration, e.agent)
              /\ (e.agent = "A" =>
                    agentAResponse = NullReply /\ callLog = {<<1, "A">>})
              /\ (e.agent = "B" => agentBResponse = NullReply)
    /\ Len(conversation) = AcceptedCount(attemptLog)
    /\ \A t \in 1..Len(conversation) :
          conversation[t].response.response # ""

\* Party B's first attempt resolved with an invalid payload: two attempts
\* remained, and the run failed
C14_Witness ==
    /\ pc = "threw"
    /\ Len(attemptLog) >= 2
    /\ attemptLog[Len(attemptLog)].agent = "B"
    /\ attemptLog[Len(attemptLog)].attempt = 1
    /\ attemptLog[Len(attemptLog)].error = InvalidFormatError
    /\ Len(conversation) = 1

\* the Reply contract: response is a non-empty string, continue a boolean,
\* missingContext a list of strings, confidence present
MeetsContract(p) ==
    /\ p.responseType = "string"
    /\ p.response # ""
    /\ p.continue \in {"true", "false"}
    /\ p.missingContext.isArray
    /\ \A k \in 1..Len(p.missingContext.itemTypes) :
          p.missingContext.itemTypes[k] = "string"
    /\ p.confidence # "undefined"

(***************************************************************************)
(* C15.  Reply validation covers the whole contract: a decoded payload is  *)
(* accepted exactly when its text is a non-empty string, its continue flag *)
(* is a boolean, its gap list is a list whose elements are all strings and *)
(* its confidence is present; a payload violating any of the four is       *)
(* rejected.  (Under ParseSpec.)                                           *)
(***************************************************************************)
C15_ValidationCoversContract ==
    verdict # "" => (verdict = "accepted" <=> MeetsContract(rawPayload))

(***************************************************************************)
(* C16.  Observer invocation count: when an onIteration callback is        *)
(* supplied, a run that returned after iterations in all of which both     *)
(* parties replied has invoked it once for every one of them, the one      *)
(* that ended in convergence included, and the latest invocation received  *)
(* that iteration's index, the latest Party-A and Party-B replies and a    *)
(* converged flag that is true when the iteration converged.               *)
(***************************************************************************)
C16_ObserverOncePerIteration ==
    (Returned /\ onIteration
     /\ Len(conversation) = 2 * result[1].iterations) =>
      /\ cbCalls = result[1].iterations
      /\ cbSnapshot = << [iteration |-> result[1].iterations,
                          agentA |-> agentAResponse,
                          agentB |-> agentBResponse,
                          converged |-> result[1].converged] >>

(***************************************************************************)
(* C17.  Observer failures are isolated: converge() never fails because    *)
(* the onIteration callback raised an exception.                           *)
(***************************************************************************)
C17_ObserverFailuresIsolated ==
    ~(pc = "threw" /\ error = "onIteration threw")

(***************************************************************************)
(* C18.  Cooperative cancellation: the cancellation signal is checked      *)
(* before each turn call, so once it is raised no further chat-completion  *)
(* call is started: no first call of a turn and no retry.  (Under          *)
(* CancelSpec; the claim adds that the run then ends with a Cancelled      *)
(* outcome.)                                                               *)
(***************************************************************************)
C18_CancellationStopsTheRun ==
    [][ cancelRequested =>
          ~(pc' = "awaitAPI" /\ (pc # "awaitAPI" \/ callLog' # callLog))
      ]_vars

(***************************************************************************)
(* C19.  In every result returned by converge(), iterations equals the     *)
(* number of Party-A turns recorded in the conversation, on the converged  *)
(* and on the exhausted path; an iteration in which only Party A ran       *)
(* counts.                                                                 *)
(***************************************************************************)
C19_IterationsCountPartyATurns ==
    Returned =>
      /\ result[1].conversation = conversation
      /\ result[1].iterations = Cardinality(TurnsOf("A"))
      /\ result[1].iterations =
            Cardinality({ k \in 1..Len(result[1].conversation) :
                            result[1].conversation[k].role = "agentA" })

\* a run that converged on Party A's reply of iteration 2: two Party-A
\* turns, one Party-B turn, iterations = 2
C19_Witness ==
    /\ Returned
    /\ result[1].converged
    /\ result[1].iterations = 2
    /\ Cardinality(TurnsOf("A")) = 2
    /\ Cardinality(TurnsOf("B")) = 1

\* the sum of one component of the token counts over the turns of conv
RECURSIVE TokenSum(_, _)
TokenSum(conv, component) ==
    IF conv = <<>> THEN 0
    ELSE Head(conv).response.tokens[component]
           + TokenSum(Tail(conv), component)

\* what the service reported for a turn of party ag
ReportedTokens(ag) ==
    IF ~usageReported THEN NoTokens
    ELSE IF ag = "A" THEN [prompt |-> 3, completion |-> 2, total |-> 5]
    ELSE [prompt |-> 4, completion |-> 1, total |-> 5]

(***************************************************************************)
(* C20.  Token accounting: in every state of a run, and in the returned    *)
(* result, each component of the token totals (prompt, completion, total)  *)
(* is the sum of that component over exactly the turns recorded in the     *)
(* conversation, each turn carrying the counts reported for its accepted   *)
(* call; so every accepted turn is counted once and a failed attempt adds  *)
(* nothing.                                                                *)
(***************************************************************************)
C20_TokenAccounting ==
    /\ \A c \in {"prompt", "completion", "total"} :
          totalTokens[c] = TokenSum(conversation, c)
    /\ \A k \in 1..Len(conversation) :
          conversation[k].response.tokens =
             ReportedTokens(conversation[k].agent)
    /\ Returned =>
          \A c \in {"prompt", "completion", "total"} :
             result[1].tokens[c] = TokenSum(result[1].conversation, c)

\* a run with usage reports returned after four turns, the last of which
\* was accepted on its third attempt
C20_Witness ==
    /\ Returned
    /\ usageReported
    /\ Len(conversation) = 4
    /\ attempt = 3
    /\ totalTokens = [prompt |-> 14, completion |-> 6, total |-> 20]

\* the cost of the tokens of a result at the default model's rates, in
\* units of 1e-10 dollars (0.0025 and 0.010 dollars per token, divided by
\* 1,000,000)
ResultCost == result[1].tokens.prompt * 25 + result[1].tokens.completion * 100

PricedLikeGpt4o ==
    /\ costOut.first # <<>>
    /\ costArgs.model \in {"gpt-4o-2024-08-06", "gpt-4o"}

(***************************************************************************)
(* C22.  Cost formula with per-million rates: for a model priced at 2.5    *)
(* (prompt) and 10.0 (completion) dollars per 1,000,000 tokens, as the     *)
(* pricing table documents for gpt-4o, calculateTokenCost(p, c, model) is  *)
(* (p * 2.5 + c * 10.0) / 1,000,000 dollars, that is p * 25000 + c *       *)
(* 100000 in units of 1e-10 dollars; 1000 prompt tokens and 500            *)
(* completion tokens cost 0.0075 dollars.  (Under CostSpec.)               *)
(***************************************************************************)
C22_PerMillionRates ==
    PricedLikeGpt4o =>
      /\ costOut.first[1] = costArgs.p1 * 25000 + costArgs.c1 * 100000
      /\ (costArgs.p1 = 1000 /\ costArgs.c1 = 500) =>
            costOut.first[1] = 75000000

\* the costs for the given model and for the default model were computed
\* for the same token counts, and the model is no key of the pricing table
FallbackCase ==
    /\ costOut.first # <<>>
    /\ costOut.default # <<>>
    /\ costArgs.model \notin DOMAIN TOKEN_PRICING

(***************************************************************************)
(* C23.  Pricing fallback: for every model identifier that is not a key    *)
(* of the pricing table, calculateTokenCost(p, c, model) is a number equal *)
(* to calculateTokenCost(p, c, default model), and no call modifies the    *)
(* pricing table.  (Under CostSpec.)                                       *)
(***************************************************************************)
C23_PricingFallback ==
    /\ tokenPricing = TOKEN_PRICING
    /\ FallbackCase =>
          (costOut.first[1] # NaN /\ costOut.first[1] = costOut.default[1])

\* C23 holds for the identifiers that are not names inherited by the table
C23_UnlessInheritedName ==
    /\ tokenPricing = TOKEN_PRICING
    /\ (FallbackCase /\ costArgs.model \notin ObjectPrototypeNames) =>
          (costOut.first[1] # NaN /\ costOut.first[1] = costOut.default[1])

\* + and * on costs: NaN is absorbing
CostPlus(x, y) == IF x = NaN \/ y = NaN THEN NaN ELSE x + y
CostTimes(k, x) == IF x = NaN THEN NaN ELSE k * x

(***************************************************************************)
(* C24.  Cost linearity: for a fixed model, cost(p1 + p2, c1 + c2) =       *)
(* cost(p1, c1) + cost(p2, c2) and cost(2p, 2c) = 2 * cost(p, c), in exact *)
(* integer arithmetic on units of 1e-10 dollars (for a model identifier    *)
(* whose cost is NaN all four costs are NaN).  (Under CostSpec.)           *)
(***************************************************************************)
C24_CostLinearity ==
    /\ (costOut.first # <<>> /\ costOut.second # <<>> /\ costOut.sum # <<>>)
          => costOut.sum[1] = CostPlus(costOut.first[1], costOut.second[1])
    /\ (costOut.first # <<>> /\ costOut.double # <<>>)
          => costOut.double[1] = CostTimes(2, costOut.first[1])
    /\ \A o \in {"first", "second", "sum", "double"} :
          (costOut[o] # <<>> /\ costOut[o][1] = NaN) =>
             costArgs.model \in ObjectPrototypeNames

\* the costs of (1000, 1) and (500, 1000), of their sum and of the double
\* of the first were computed for gpt-4-turbo
C24_Witness ==
    /\ costArgs = [p1 |-> 1000, c1 |-> 1, p2 |-> 500, c2 |-> 1000,
                   model |-> "gpt-4-turbo"]
    /\ costOut.first = <<100300>>
    /\ costOut.second = <<350000>>
    /\ costOut.sum = <<450300>>
    /\ costOut.double = <<200600>>

\* the replies recorded in the conversation of the result
RecordedReplies ==
    { result[1].conversation[k].response :
         k \in 1..Len(result[1].conversation) }

(***************************************************************************)
(* C25.  In every result returned by converge(), convergenceScore equals   *)
(* getConvergenceScore(finalResponse), and finalResponse is one of the     *)
(* replies recorded in the conversation.                                   *)
(***************************************************************************)
C25_ScoreOfFinalResponse ==
    Returned =>
      /\ result[1].convergenceScore =
            getConvergenceScore(result[1].finalResponse)
      /\ result[1].finalResponse \in RecordedReplies

\* an exhausted run whose last Party-A reply scores higher than its last
\* Party-B reply: the result carries Party A's reply and its score
C25_Witness ==
    /\ Exhausted
    /\ getConvergenceScore(FinalA) > getConvergenceScore(FinalB)
    /\ result[1].finalResponse = FinalA
    /\ result[1].convergenceScore = getConvergenceScore(FinalA)

(***************************************************************************)
(* C26.  In every result returned by converge(), converged is true if and  *)
(* only if finalResponse declines to continue and lists no gap, and if and *)
(* only if convergenceScore is 100: an exhausted run never reports a score *)
(* of 100 and a converged run never reports less.                          *)
(***************************************************************************)
C26_ConvergedIffScore100 ==
    Returned =>
      LET final == result[1].finalResponse
      IN  /\ result[1].converged <=>
                (~final.continue /\ final.missingContext = <<>>)
          /\ result[1].converged <=> (result[1].convergenceScore = 100)
          /\ ~result[1].converged => result[1].convergenceScore < 100
          /\ result[1].converged => result[1].convergenceScore >= 100

\* an exhausted run whose final response declines to continue but still
\* lists a gap: score 90, not converged
C26_Witness ==
    /\ Exhausted
    /\ ~result[1].finalResponse.continue
    /\ result[1].finalResponse.missingContext # <<>>
    /\ result[1].convergenceScore = 90
    /\ ~result[1].converged

\* the turns whose first call was issued and whose reply is not recorded
OpenTurns == { c \in callLog : ~Recorded(c[1], c[2]) }

(***************************************************************************)
(* C27.  Strict turn order within a session: at most one turn has a call   *)
(* outstanding at any time, and it is the turn the session is waiting on;  *)
(* the Party-B call of an iteration is issued only after that iteration's  *)
(* Party-A reply has been recorded, and the Party-A call of iteration      *)
(* i + 1 only after iteration i's Party-B reply has been recorded.         *)
(***************************************************************************)
C27_StrictTurnOrder ==
    /\ Cardinality(OpenTurns) <= 1
    /\ \A c \in OpenTurns :
          /\ pc \in {"awaitAPI", "backoff", "threw"}
          /\ c = <<i + 1, agent>>
    /\ pc \in {"awaitAPI", "backoff"} => OpenTurns = {<<i + 1, agent>>}
    /\ \A c \in callLog :
          /\ c[2] = "B" => Recorded(c[1], "A")
          /\ (c[2] = "A" /\ c[1] > 1) => Recorded(c[1] - 1, "B")

\* Party A's call of iteration 2 is outstanding, after both replies of
\* iteration 1 were recorded
C27_Witness ==
    /\ pc = "awaitAPI"
    /\ OpenTurns = {<<2, "A">>}
    /\ callLog = {<<1, "A">>, <<1, "B">>, <<2, "A">>}
    /\ Len(conversation) = 2

\* the prompt logged for party ag in iteration it
PromptsOf(it, ag) ==
    { e.prompt : e \in { l \in promptLog :
                            l.iteration = it /\ l.agent = ag } }

\* the reply recorded for party ag in iteration it
RepliesOf(it, ag) ==
    { conversation[t].response :
        t \in { k \in 1..Len(conversation) :
                  conversation[k].iteration = it
                  /\ conversation[k].agent = ag } }

\* the segments of a refinement prompt that follow "Missing context
\* identified: " list exactly the gaps, in order, or say None
EmbedsGaps(parts, gaps) ==
    LET n == Len(gaps)
    IN  IF n = 0
        THEN Len(parts) = 5 /\ parts[4] = "None"
        ELSE /\ Len(parts) = 3 + (2 * n - 1) + 1
             /\ \A g \in 1..n : parts[2 + 2 * g] = gaps[g]
             /\ \A g \in 1..(n - 1) : parts[3 + 2 * g] = ", "

(***************************************************************************)
(* C28.  Prompt data flow: every turn whose call was issued has exactly    *)
(* one prompt; Party A's prompt in iteration 1 is the original query       *)
(* verbatim; Party A's prompt in iteration i > 1 embeds the text and the   *)
(* gap list of the reply Party B gave in iteration i - 1, and of no other  *)
(* reply; Party B's prompt in iteration i embeds the text of the reply     *)
(* Party A gave in the same iteration i.                                   *)
(***************************************************************************)
C28_PromptDataFlow ==
    /\ { <<e.iteration, e.agent>> : e \in promptLog } = callLog
    /\ \A c \in callLog : Cardinality(PromptsOf(c[1], c[2])) = 1
    /\ \A e \in promptLog :
          IF e.agent = "A" /\ e.iteration = 1
          THEN e.prompt.query = initialQuery /\ e.prompt.parts = <<>>
          ELSE IF e.agent = "A"
          THEN \E b \in RepliesOf(e.iteration - 1, "B") :
                  /\ e.prompt.source = b.id
                  /\ e.prompt.parts[2] = b.response
                  /\ EmbedsGaps(e.prompt.parts, b.missingContext)
          ELSE \E a \in RepliesOf(e.iteration, "A") :
                  /\ e.prompt.source = a.id
                  /\ e.prompt.parts[2] = a.response
                  /\ Len(e.prompt.parts) = 2

\* Party A was prompted in iteration 2 with Party B's first reply, which
\* lists a gap that Party A's own first reply does not
C28_Witness ==
    /\ <<2, "A">> \in callLog
    /\ \E p \in PromptsOf(2, "A") :
          /\ p.source = 2
          /\ p.parts[4] = "gap"
    /\ conversation[1].response.missingContext = <<>>
    /\ conversation[2].response.missingContext = <<"gap">>
    /\ \E p \in PromptsOf(1, "B") : p.source = 1
    /\ \E p \in PromptsOf(1, "A") : p.query = JSString(<<"q">>)

\* the replies run r accepted, in order
RepliesGiven(r) ==
    [k \in 1..Len(r.conversation) |-> r.conversation[k].response]

\* the conversation a run alone records for these replies: Party A and
\* Party B in turn, two turns to an iteration
AloneConversation(replies) ==
    [k \in 1..Len(replies) |->
        Turn((k + 1) \div 2, IF k % 2 = 1 THEN "A" ELSE "B", replies[k])]

\* the totals a run alone accumulates over its conversation
AloneTokens(conv) ==
    [prompt |-> TokenSum(conv, "prompt"),
     completion |-> TokenSum(conv, "completion"),
     total |-> TokenSum(conv, "total")]

\* run r holds what a run alone holds after the same replies: its
\* conversation, its totals and, once it has returned, its result
RunsAsAlone(r) ==
    LET replies == RepliesGiven(r)
        n == Len(replies)
        conv == AloneConversation(replies)
        tokens == AloneTokens(conv)
    IN  /\ \A k \in 1..n : replies[k].id = k
        /\ r.conversation = conv
        /\ r.totalTokens = tokens
        /\ r.pc = "returned" =>
              /\ n >= 1
              /\ IF ~replies[n].continue /\ replies[n].missingContext = <<>>
                 THEN r.result =
                         <<ConvergedResult((n + 1) \div 2 - 1, replies[n],
                                           conv, tokens)>>
                 ELSE /\ n = 2 * r.maxIterations.int
                      /\ r.result =
                            <<ExhaustedResult(r.maxIterations,
                                              replies[n - 1], replies[n],
                                              conv, tokens)>>

\* a step either belongs to the executing run and leaves the suspended
\* run's state as it was, or hands over and exchanges the two states whole
RunsDoNotInterfere ==
    IF current' = current
    THEN other' = other
    ELSE other' = Self /\ Self' = other

(***************************************************************************)
(* C29.  Session independence: when two converge() runs are interleaved    *)
(* arbitrarily at their suspension points, each run's conversation, token  *)
(* totals and result (converged, finalResponse, iterations, score, cost)   *)
(* are those a run alone produces from the replies that run received, and  *)
(* no step of one run changes the state of the other.  (Under PairSpec.)   *)
(***************************************************************************)
C29_SessionIndependence ==
    /\ [](RunsAsAlone(Self) /\ RunsAsAlone(other))
    /\ [][RunsDoNotInterfere]_vars

\* the first run has returned an exhausted result with the 10 tokens of its
\* own two replies while the second run, whose replies report no usage, has
\* one reply recorded and waits to retry its Party-B call
C29_Witness ==
    /\ current = 1
    /\ Exhausted
    /\ result[1].tokens.total = 10
    /\ other.pc = "backoff"
    /\ other.agent = "B"
    /\ Len(other.conversation) = 1
    /\ ~other.usageReported
    /\ other.totalTokens = NoTokens

\* the run is between its invocation and its settlement
Running == pc \in {"awaitAPI", "backoff"}

\* the three ways a run ends
EndedConverged == pc = "returned" /\ result # <<>> /\ result[1].converged
EndedExhausted == pc = "returned" /\ result # <<>> /\ ~result[1].converged
EndedFailed == pc = "threw" /\ result = <<>> /\ error # ""

\* a settled run is in exactly one of the three terminal states
OneTerminalState ==
    Finished =>
      /\ EndedConverged \/ EndedExhausted \/ EndedFailed
      /\ ~(EndedConverged /\ EndedFailed)
      /\ ~(EndedExhausted /\ EndedFailed)
      /\ ~(EndedConverged /\ EndedExhausted)

\* the steps of a single traversal: an idle run starts running or fails at
\* once (a configuration error, or no API key); a running run never returns
\* to idle; a settled run changes no more; no run returns without having run
SingleTraversal ==
    /\ pc = "idle" => pc' \in {"idle", "awaitAPI", "threw"}
    /\ Running => pc' # "idle"
    /\ Finished =>
          /\ pc' = pc
          /\ result' = result
          /\ error' = error
          /\ conversation' = conversation
          /\ callLog' = callLog

(***************************************************************************)
(* C30.  Single traversal and termination: a run moves from idle to        *)
(* running to exactly one of converged, exhausted and failed (a run whose  *)
(* configuration is rejected fails on invocation), never leaves a terminal *)
(* state and never re-enters running; and provided every external call     *)
(* eventually returns or fails and every backoff timer fires, every run    *)
(* that is running eventually reaches a terminal state.  (Under LiveSpec.) *)
(***************************************************************************)
C30_SingleTraversalAndTermination ==
    /\ []OneTerminalState
    /\ [][SingleTraversal]_vars
    /\ (Running ~> Finished)

\* a run that went through two full iterations and ended exhausted
C30_Witness ==
    /\ EndedExhausted
    /\ result[1].iterations = 2
    /\ Len(conversation) = 4
    /\ i = 2

(***************************************************************************)
(* C32.  Monotonic gap penalty: with continue fixed to false, the score of *)
(* a reply is never above the score of the same reply with one gap fewer   *)
(* (so the score never increases with the number of gaps), and it is never *)
(* below 60 for any number of gaps.  (Under EvalSpec.)                     *)
(***************************************************************************)
C32_MonotonicGapPenalty ==
    ~evalReply.continue =>
      /\ (evalOut.score # <<>> /\ evalOut.fewer # <<>>) =>
            evalOut.score[1] <= evalOut.fewer[1]
      /\ evalOut.score # <<>> => evalOut.score[1] >= 60
      /\ evalOut.fewer # <<>> => evalOut.fewer[1] >= 60

\* continue = false: four gaps score 60 where three gaps score 70
C32_Witness ==
    /\ ~evalReply.continue
    /\ Len(evalReply.missingContext) = 4
    /\ evalOut.score = <<60>>
    /\ evalOut.fewer = <<70>>

(***************************************************************************)
(* C33.  Score floor: for continue = true and a gap list of 4 or more      *)
(* entries (5 and more included), getConvergenceScore returns exactly 0,   *)
(* and no score is negative.  (Under EvalSpec.)                            *)
(***************************************************************************)
C33_ScoreFloor ==
    evalOut.score # <<>> =>
      /\ (evalReply.continue /\ Len(evalReply.missingContext) >= 4) =>
            evalOut.score[1] = 0
      /\ ~(evalOut.score[1] < 0)

\* the score of a reply with continue = true and five gaps was computed
C33_Witness ==
    /\ evalReply.continue
    /\ Len(evalReply.missingContext) = 5
    /\ evalOut.score = <<0>>

\* the positions of the conversation that hold reply
PositionsOf(reply) ==
    { k \in 1..Len(conversation) : conversation[k].response = reply }

\* parties alternate from Party A, two turns to an iteration numbered from
\* 1, each party under its one role; every reply accepted so far is in the
\* conversation exactly once, whether or not it converged
WellFormedHistory ==
    /\ \A k \in 1..Len(conversation) :
          /\ conversation[k].agent = (IF k % 2 = 1 THEN "A" ELSE "B")
          /\ conversation[k].iteration >= 1
          /\ conversation[k].iteration = (k + 1) \div 2
          /\ k > 1 => conversation[k].iteration >= conversation[k - 1].iteration
          /\ conversation[k].role =
                (IF conversation[k].agent = "A" THEN "agentA" ELSE "agentB")
          /\ PositionsOf(conversation[k].response) = {k}
    /\ agentAResponse # NullReply =>
          Cardinality(PositionsOf(agentAResponse)) = 1
    /\ agentBResponse # NullReply =>
          Cardinality(PositionsOf(agentBResponse)) = 1
    /\ Returned =>
          /\ result[1].conversation = conversation
          /\ Cardinality(PositionsOf(result[1].finalResponse)) = 1

\* a step leaves the conversation as it is or adds one entry at its end
AppendOnly ==
    \/ conversation' = conversation
    \/ /\ Len(conversation') = Len(conversation) + 1
       /\ SubSeq(conversation', 1, Len(conversation)) = conversation
       /\ conversation'[Len(conversation')].response
             \in {agentAResponse', agentBResponse'}

(***************************************************************************)
(* C31.  Turn history is append-only and well-formed: each accepted reply  *)
(* is appended to the conversation exactly once, in the step that accepts  *)
(* it and before any result is built from it; entries already in the       *)
(* conversation are never removed, reordered or changed; parties alternate *)
(* A, B, A, B, ... starting with A; iteration indices are 1-based and      *)
(* non-decreasing, and each party has the same role on all its turns.      *)
(***************************************************************************)
C31_HistoryAppendOnly ==
    /\ []WellFormedHistory
    /\ [][AppendOnly]_vars

\* four turns were recorded, in iterations 1, 1, 2, 2
C31_Witness ==
    /\ Len(conversation) = 4
    /\ conversation[1].iteration = 1 /\ conversation[1].role = "agentA"
    /\ conversation[2].iteration = 1 /\ conversation[2].role = "agentB"
    /\ conversation[3].iteration = 2 /\ conversation[3].role = "agentA"
    /\ conversation[4].iteration = 2 /\ conversation[4].role = "agentB"

\* the count the returned reply holds for a field of the usage report
TokensFor(field) ==
    evalReply.tokens[CASE field = "prompt_tokens" -> "prompt"
                       [] field = "completion_tokens" -> "completion"
                       [] OTHER -> "total"]

(***************************************************************************)
(* C34.  Missing usage metadata never fails a turn: a structurally valid   *)
(* response is accepted whether its usage report is present, absent or     *)
(* lacking some counts (the verdict depends on the payload alone); every   *)
(* absent count is recorded as 0 and every count present as reported, so   *)
(* adding the reply's tokens to a session's totals leaves the totals of    *)
(* the absent counts as they were.  (Under ParseSpec.)                     *)
(***************************************************************************)
C34_MissingUsageNeverFails ==
    verdict # "" =>
      /\ ValidFormat(rawPayload) => verdict = "accepted"
      /\ verdict = "accepted" =>
            /\ \A f \in UsageFields :
                  TokensFor(f) =
                     (IF rawUsage.present /\ f \in rawUsage.fields
                      THEN rawUsage[f] ELSE 0)
            /\ LET before == [prompt |-> 7, completion |-> 3, total |-> 10]
                   after == AddTokens(before, evalReply.tokens)
               IN  /\ "prompt_tokens" \notin rawUsage.fields =>
                         after.prompt = before.prompt
                   /\ "completion_tokens" \notin rawUsage.fields =>
                         after.completion = before.completion
                   /\ "total_tokens" \notin rawUsage.fields =>
                         after.total = before.total

\* a valid payload whose usage report carries the prompt count only
C34_Witness ==
    /\ verdict = "accepted"
    /\ rawUsage.present
    /\ rawUsage.fields = {"prompt_tokens"}
    /\ evalReply.tokens = [prompt |-> 3, completion |-> 0, total |-> 0]

\* the turn whose log is L is still in progress: its call is outstanding or
\* its backoff wait is running
TurnInProgress(it, ag) ==
    /\ pc \in {"awaitAPI", "backoff"}
    /\ i + 1 = it
    /\ agent = ag

(***************************************************************************)
(* C36.  Attempt bound of one turn: queryOpenAI issues at most maxRetries  *)
(* chat-completion calls for a turn, the first one included; a wait        *)
(* follows the k-th attempt exactly when that attempt failed with a        *)
(* transient failure and k < maxRetries, and it lasts retryDelay *         *)
(* 2^(k-1); no wait follows the last failed attempt; and a turn that is no *)
(* longer in progress has either returned a validated reply, which was     *)
(* recorded, or thrown "OpenAI API failed" (never the bare lastError of    *)
(* src/index.js:127).  (Under TurnSpec.)                                   *)
(***************************************************************************)
C36_AttemptBoundOfATurn ==
    /\ maxRetries >= 1
    /\ error # "lastError"
    /\ \A c \in callLog :
          LET L == TurnAttempts(c[1], c[2])
              n == Len(L)
          IN  /\ n <= maxRetries
              /\ \A k \in 1..n :
                    /\ L[k].attempt = k
                    /\ L[k].wait > 0 <=>
                          (TransientFailure(L[k]) /\ k < maxRetries)
                    /\ L[k].wait > 0 => L[k].wait = retryDelay * 2^(k - 1)
                    /\ (Failed(L[k]) /\ k = maxRetries) => L[k].wait = 0
                    /\ k < n => L[k].wait > 0
              /\ IF TurnInProgress(c[1], c[2])
                 THEN /\ ~Recorded(c[1], c[2])
                      /\ n < maxRetries
                      /\ attempt = (IF pc = "backoff" THEN n ELSE n + 1)
                 ELSE /\ n >= 1
                      /\ IF Failed(L[n])
                         THEN /\ ~Recorded(c[1], c[2])
                              /\ L[n].wait = 0
                              /\ pc = "threw"
                              /\ error = "OpenAI API failed"
                         ELSE Recorded(c[1], c[2])

\* Party B's turn took all three attempts: two transient failures, waited
\* 1000 ms and 2000 ms, then a reply that was accepted
C36_Witness ==
    LET L == TurnAttempts(1, "B")
    IN  /\ Len(L) = 3
        /\ L[1].error.status = 429 /\ L[1].wait = 1000
        /\ L[2].error.status = 503 /\ L[2].wait = 2000
        /\ ~Failed(L[3]) /\ L[3].wait = 0
        /\ Recorded(1, "B")
        /\ Returned

\* the replies of the returned conversation, the last one left out
EarlierReplies ==
    { result[1].conversation[k].response :
         k \in 1..(Len(result[1].conversation) - 1) }

(***************************************************************************)
(* C37.  Shape of a returned conversation: in every result, no turn other  *)
(* than the last one declines to continue with an empty gap list; the      *)
(* conversation has 2 * iterations - 1 turns when Party A's reply ended    *)
(* the run by converging and 2 * iterations turns otherwise (Party B       *)
(* converged or the bound was exhausted).                                  *)
(***************************************************************************)
C37_ShapeOfReturnedConversation ==
    Returned =>
      LET conv == result[1].conversation
          n == Len(conv)
          last == conv[n]
          endedByA == result[1].converged /\ last.agent = "A"
      IN  /\ n >= 1
          /\ \A r \in EarlierReplies :
                ~(~r.continue /\ r.missingContext = <<>>)
          /\ endedByA => n = 2 * result[1].iterations - 1
          /\ ~endedByA => n = 2 * result[1].iterations
          /\ ~result[1].converged => last.agent = "B"

\* Party A converged in iteration 2: three turns
C37_Witness ==
    /\ Returned
    /\ result[1].converged
    /\ result[1].iterations = 2
    /\ Len(result[1].conversation) = 3
    /\ result[1].conversation[3].agent = "A"

(***************************************************************************)
(* C38: async task lifecycle in the API server.  A request with a          *)
(* webhookUrl gets a fresh task id that is recorded 'queued' before any    *)
(* call of converge() for it and is answered 202; the recorded status      *)
(* moves only queued -> processing -> (completed | failed), 'completed'    *)
(* only when converge() returned and 'failed' only when it threw; a        *)
(* 'completed' or 'failed' status never changes again, the queue's retry   *)
(* attempts included; a status query for an unknown task id answers 404.   *)
(***************************************************************************)
AsyncTasks == {t \in TaskIds : handler[t].pc \notin {"none", "sync"}}

QueuedBeforeWork ==
    \A t \in AsyncTasks :
        /\ tasks[t] # "absent"
        /\ tasks[t] = "queued" => handler[t].outcome = "none"
        /\ \A r \in httpLog :
               r.taskId = t /\ r.code = 202 => r.status = "queued"

LifecycleStep(t) ==
    \/ tasks'[t] = tasks[t]
    \/ tasks[t] = "absent" /\ tasks'[t] = "queued"
    \/ tasks[t] = "queued" /\ tasks'[t] = "processing"
    \/ /\ tasks[t] = "processing"
       /\ tasks'[t] = "completed"
       /\ handler'[t].outcome = "returned"
    \/ /\ tasks[t] = "processing"
       /\ tasks'[t] = "failed"
       /\ handler'[t].outcome = "threw"

UnknownReports404 ==
    statusReply' # statusReply =>
        LET id == statusReply'.taskId
        IN  (id \notin TaskIds \/ tasks[id] = "absent")
                <=> statusReply'.code = 404

TaskLifecycle ==
    /\ \A t \in TaskIds : handler'[t].pc # "sync" => LifecycleStep(t)
    /\ UnknownReports404

C38_AsyncTaskLifecycle == []QueuedBeforeWork /\ [][TaskLifecycle]_vars

\* the same lifecycle when the step of a retried job from 'failed' back to
\* 'processing' is set aside: every other part of C38 holds, with or
\* without the queue
RetryStep(t) ==
    /\ USE_QUEUE
    /\ tasks[t] = "failed"
    /\ tasks'[t] = "processing"
    /\ handler[t].attemptsMade \in 1..(queueAttempts - 1)

C38_ApartFromQueueRetry ==
    /\ []QueuedBeforeWork
    /\ [][/\ \A t \in TaskIds :
                handler'[t].pc # "sync" => LifecycleStep(t) \/ RetryStep(t)
          /\ UnknownReports404]_vars

\* without the queue a terminal status is final
C38_WithoutQueue == [][~USE_QUEUE => TaskLifecycle]_vars

(***************************************************************************)
(* C39: webhook delivery is bounded and cannot fail the task.  sendWebhook *)
(* makes at most 3 POST attempts, waits 1000 ms after the first failure    *)
(* and 2000 ms after the second, stops at the first 2xx answer, never      *)
(* throws and returns false after the third failure; the task is recorded  *)
(* 'completed' before the first attempt and stays 'completed' whatever the *)
(* outcome of the delivery.                                                *)
(***************************************************************************)
InDelivery == {t \in TaskIds : handler[t].attempt >= 1}

BoundedDelivery ==
    \A t \in InDelivery :
        LET h == handler[t]
        IN  /\ h.attempt <= 3
            /\ h.waits \in {<<>>, <<1000>>, <<1000, 2000>>}
            /\ h.pc \in {"posting", "waiting", "returned"}
            /\ h.pc = "posting" => Len(h.waits) = h.attempt - 1
            /\ h.pc = "waiting" => Len(h.waits) = h.attempt
            /\ h.pc = "waiting" => h.delay = h.waits[Len(h.waits)]
            /\ h.delivered \in {"pending", "true", "false"}
            /\ h.delivered = "pending" <=> h.pc # "returned"
            /\ h.delivered = "false" => h.attempt = 3 /\ Len(h.waits) = 2
            /\ h.delivered = "true" => Len(h.waits) = h.attempt - 1
            /\ tasks[t] = "completed"

DeliveryEnds ==
    \A t \in InDelivery :
        /\ handler[t].delivered # "pending" => handler'[t] = handler[t]
        /\ tasks'[t] = "completed"

C39_WebhookDeliveryBounded == []BoundedDelivery /\ [][DeliveryEnds]_vars

\* a delivery that failed three times, after both waits, its task completed
C39_Witness ==
    \E t \in TaskIds :
        /\ handler[t].delivered = "false"
        /\ handler[t].waits = <<1000, 2000>>
        /\ tasks[t] = "completed"

(***************************************************************************)
(* C35: tenant lifecycle tracking.  An environment record is created with  *)
(* status 'provisioning'; it becomes 'running' only after its container    *)
(* was started successfully, never for an environment whose container      *)
(* failed to start; it becomes 'destroyed' on destroyTenant; a status or   *)
(* destroy request for an unknown environment id fails with 'Environment   *)
(* not found' and changes no record.                                       *)
(***************************************************************************)
RunningOnlyIfStarted ==
    \A e \in EnvIds :
        /\ environments[e].status = "running" => provisioning[e].up = "ok"
        /\ provisioning[e].up = "failed" =>
               environments[e].status \in {"provisioning", "destroyed"}
        /\ environments[e].status = "absent" <=> provisioning[e].pc = "none"

StatusStep(e) ==
    LET old == environments[e].status
        new == environments'[e].status
    IN  /\ old = "absent" /\ new # old => new = "provisioning"
        /\ new = "running" /\ new # old =>
               /\ provisioning[e].up = "ok"
               /\ provisioning[e].pc = "started"
        /\ new = "destroyed" /\ new # old => destroying[e] = "updating"
        /\ destroying'[e] = "returned" /\ destroying[e] # "returned" =>
               /\ new = "destroyed"
               /\ tenantReply' =
                      [op |-> "destroy", id |-> e, outcome |-> "destroyed"]
        /\ new \in {"absent", "provisioning", "running", "destroyed"}

UnknownEnvironment ==
    tenantReply' # tenantReply /\ tenantReply'.op \in {"status", "destroy"} =>
        LET id == tenantReply'.id
        IN  /\ RowOf(id).status = "absent"
                <=> tenantReply'.outcome = "Environment not found"
            /\ RowOf(id).status = "absent" =>
                   UNCHANGED <<environments, provisioning, destroying>>

====
